---- MODULE Spec2Model ----
(***************************************************************************)
(* Status metadata registry and medical-service transition table of        *)
(* @doctorus/common, modelled as a state machine whose steps are calls of  *)
(* the exported functions.  JavaScript values are tagged records so that   *)
(* undefined, inherited Object.prototype members and thrown errors are     *)
(* outcomes the model can produce and the properties can tell apart.       *)
(*                                                                         *)
(* Enum-like strings (status values, feature names, locales, formats) are  *)
(* TLA+ strings; display texts (labels, descriptions, icons, colors,       *)
(* search terms) are sequences of one-character strings, because the code  *)
(* lower-cases and substring-searches them.                                *)
(***************************************************************************)
EXTENDS Integers, Sequences, FiniteSets, TLC

VARIABLES transitionsTable, metadataRegistry, call, result, serviceStatus

vars == <<transitionsTable, metadataRegistry, call, result, serviceStatus>>

(* ---------------------------- bounds ----------------------------------- *)

\* longest search term drawn from the substrings of the registered texts
MaxTermLen == 2

(* ------------------------- JavaScript values --------------------------- *)

Undefined == [t |-> "undefined"]

JSString(s) == [t |-> "string", s |-> s]

JSBoolean(b) == [t |-> "boolean", b |-> b]

JSArray(items) == [t |-> "array", items |-> items]

JSFunction(name) == [t |-> "function", name |-> name]

\* a plain object: its own keys in insertion order and their values
JSObject(keys, map) == [t |-> "object", keys |-> keys, map |-> map]

Return(v) == [kind |-> "return", value |-> v]

Throw(error, message) == [kind |-> "throw", error |-> error, message |-> message]

\* members every object inherits from Object.prototype (the ones the inputs
\* below can name)
OBJECT_PROTOTYPE_KEYS == {"constructor", "toString", "valueOf", "hasOwnProperty"}

\* obj[key]: own property, else inherited member, else undefined
Get(obj, key) ==
  IF obj.t = "object" /\ key \in DOMAIN obj.map THEN obj.map[key]
  ELSE IF obj.t \in {"object", "array", "function"} /\ key \in OBJECT_PROTOTYPE_KEYS
       THEN JSFunction(key)
  ELSE Undefined

\* mutant: optional chaining, reading a property of undefined yields undefined
GetC_optionalChaining(completion, key) ==
  IF completion.kind = "throw" THEN completion
  ELSE IF completion.value.t = "undefined" THEN Return(Undefined)
  ELSE Return(Get(completion.value, key))

\* completion.key: a throw propagates, reading a property of undefined is a
\* TypeError
GetC(completion, key) ==
  IF completion.kind = "throw" THEN completion
  ELSE IF completion.value.t = "undefined"
       THEN Throw("TypeError", <<"Cannot read properties of undefined", key>>)
  ELSE Return(Get(completion.value, key))

\* JavaScript truthiness of the values the model produces
Truthy(v) ==
  CASE v.t = "undefined" -> FALSE
    [] v.t = "null" -> FALSE
    [] v.t = "boolean" -> v.b
    [] v.t = "string" -> Len(v.s) > 0
    [] OTHER -> TRUE

ObjectKeys(obj) == IF obj.t = "object" THEN obj.keys ELSE << >>

ObjectEntries(obj) ==
  [i \in 1..Len(ObjectKeys(obj)) |-> <<ObjectKeys(obj)[i], obj.map[ObjectKeys(obj)[i]]>>]

Range(seq) == {seq[i] : i \in DOMAIN seq}

(* --------------------------- status/types.ts --------------------------- *)

Locales == {"us-EN", "fr-FR"}

Formats == {"short", "long"}

\* mutant: the French translation is left empty
LocaleText_frenchMissing(en, fr) ==
  JSObject(<<"us-EN", "fr-FR">>, ("us-EN" :> JSString(en)) @@ ("fr-FR" :> JSString(<< >>)))

LocaleText(en, fr) ==
  JSObject(<<"us-EN", "fr-FR">>, ("us-EN" :> JSString(en)) @@ ("fr-FR" :> JSString(fr)))

StatusMetadata(icon, color, shortEn, shortFr, longEn, longFr, descEn, descFr) ==
  JSObject(<<"icon", "color", "label", "description">>,
    [icon |-> JSString(icon),
     color |-> JSString(color),
     label |-> JSObject(<<"short", "long">>,
                 [short |-> LocaleText(shortEn, shortFr),
                  long |-> LocaleText(longEn, longFr)]),
     description |-> LocaleText(descEn, descFr)])

(* ------------------------- metadata tables ----------------------------- *)

MEDICAL_SERVICE_STATUS_METADATA ==
  JSObject(<<"pending", "on_waiting_room", "in_progress", "completed", "canceled">>,
    ("pending" :> StatusMetadata(<<"s","c","h","e","d","u","l","e">>, <<"#","9","E","9","E","9","E">>,
         <<"P","e","n","d","i","n","g">>,
         <<"E","n"," ","a","t","t","e","n","t","e">>,
         <<"P","e","n","d","i","n","g"," ","S","e","r","v","i","c","e">>,
         <<"S","e","r","v","i","c","e"," ","e","n"," ","a","t","t","e","n","t","e">>,
         <<"T","h","e"," ","m","e","d","i","c","a","l"," ","s","e","r","v","i","c","e"," ","i","s"," ","s","c","h","e","d","u","l","e","d"," ","a","n","d"," ","w","a","i","t","i","n","g"," ","t","o"," ","b","e","g","i","n">>,
         <<"L","e"," ","s","e","r","v","i","c","e"," ","m","é","d","i","c","a","l"," ","e","s","t"," ","p","l","a","n","i","f","i","é"," ","e","t"," ","e","n"," ","a","t","t","e","n","t","e"," ","d","e"," ","d","é","m","a","r","r","a","g","e">>)) @@
    ("on_waiting_room" :> StatusMetadata(<<"e","v","e","n","t","_","b","u","s","y">>, <<"#","F","F","9","8","0","0">>,
         <<"W","a","i","t","i","n","g">>,
         <<"E","n"," ","a","t","t","e","n","t","e">>,
         <<"I","n"," ","W","a","i","t","i","n","g"," ","R","o","o","m">>,
         <<"D","a","n","s"," ","l","a"," ","s","a","l","l","e"," ","d","'","a","t","t","e","n","t","e">>,
         <<"P","a","t","i","e","n","t"," ","h","a","s"," ","c","h","e","c","k","e","d"," ","i","n"," ","a","n","d"," ","i","s"," ","w","a","i","t","i","n","g"," ","i","n"," ","t","h","e"," ","w","a","i","t","i","n","g"," ","r","o","o","m">>,
         <<"L","e"," ","p","a","t","i","e","n","t"," ","s","'","e","s","t"," ","e","n","r","e","g","i","s","t","r","é"," ","e","t"," ","a","t","t","e","n","d"," ","d","a","n","s"," ","l","a"," ","s","a","l","l","e"," ","d","'","a","t","t","e","n","t","e">>)) @@
    ("in_progress" :> StatusMetadata(<<"m","e","d","i","c","a","l","_","s","e","r","v","i","c","e","s">>, <<"#","2","1","9","6","F","3">>,
         <<"I","n"," ","P","r","o","g","r","e","s","s">>,
         <<"E","n"," ","c","o","u","r","s">>,
         <<"S","e","r","v","i","c","e"," ","I","n"," ","P","r","o","g","r","e","s","s">>,
         <<"S","e","r","v","i","c","e"," ","e","n"," ","c","o","u","r","s">>,
         <<"T","h","e"," ","m","e","d","i","c","a","l"," ","s","e","r","v","i","c","e"," ","c","o","n","s","u","l","t","a","t","i","o","n"," ","i","s"," ","c","u","r","r","e","n","t","l","y"," ","i","n"," ","p","r","o","g","r","e","s","s">>,
         <<"L","a"," ","c","o","n","s","u","l","t","a","t","i","o","n"," ","d","u"," ","s","e","r","v","i","c","e"," ","m","é","d","i","c","a","l"," ","e","s","t"," ","a","c","t","u","e","l","l","e","m","e","n","t"," ","e","n"," ","c","o","u","r","s">>)) @@
    ("completed" :> StatusMetadata(<<"c","h","e","c","k","_","c","i","r","c","l","e">>, <<"#","4","C","A","F","5","0">>,
         <<"C","o","m","p","l","e","t","e","d">>,
         <<"T","e","r","m","i","n","é">>,
         <<"S","e","r","v","i","c","e"," ","C","o","m","p","l","e","t","e","d">>,
         <<"S","e","r","v","i","c","e"," ","t","e","r","m","i","n","é">>,
         <<"T","h","e"," ","m","e","d","i","c","a","l"," ","s","e","r","v","i","c","e"," ","h","a","s"," ","b","e","e","n"," ","s","u","c","c","e","s","s","f","u","l","l","y"," ","c","o","m","p","l","e","t","e","d">>,
         <<"L","e"," ","s","e","r","v","i","c","e"," ","m","é","d","i","c","a","l"," ","a"," ","é","t","é"," ","t","e","r","m","i","n","é"," ","a","v","e","c"," ","s","u","c","c","è","s">>)) @@
    ("canceled" :> StatusMetadata(<<"c","a","n","c","e","l">>, <<"#","F","4","4","3","3","6">>,
         <<"C","a","n","c","e","l","e","d">>,
         <<"A","n","n","u","l","é">>,
         <<"S","e","r","v","i","c","e"," ","C","a","n","c","e","l","e","d">>,
         <<"S","e","r","v","i","c","e"," ","a","n","n","u","l","é">>,
         <<"T","h","e"," ","m","e","d","i","c","a","l"," ","s","e","r","v","i","c","e"," ","h","a","s"," ","b","e","e","n"," ","c","a","n","c","e","l","e","d"," ","a","n","d"," ","w","i","l","l"," ","n","o","t"," ","p","r","o","c","e","e","d">>,
         <<"L","e"," ","s","e","r","v","i","c","e"," ","m","é","d","i","c","a","l"," ","a"," ","é","t","é"," ","a","n","n","u","l","é"," ","e","t"," ","n","e"," ","s","e","r","a"," ","p","a","s"," ","e","f","f","e","c","t","u","é">>)))

ACCOUNT_LOCATION_STATUS_METADATA ==
  JSObject(<<"inherit", "always_open", "closed", "periods">>,
    ("inherit" :> StatusMetadata(<<"s","e","t","t","i","n","g","s","_","b","a","c","k","u","p","_","r","e","s","t","o","r","e">>, <<"#","8","0","8","0","8","0">>,
         <<"I","n","h","e","r","i","t">>,
         <<"H","é","r","i","t","e","r">>,
         <<"I","n","h","e","r","i","t"," ","S","e","t","t","i","n","g","s">>,
         <<"H","é","r","i","t","e","r"," ","d","e","s"," ","p","a","r","a","m","è","t","r","e","s">>,
         <<"L","o","c","a","t","i","o","n"," ","i","n","h","e","r","i","t","s"," ","a","v","a","i","l","a","b","i","l","i","t","y"," ","s","e","t","t","i","n","g","s"," ","f","r","o","m"," ","p","a","r","e","n","t">>,
         <<"L","e"," ","l","i","e","u"," ","h","é","r","i","t","e"," ","l","e","s"," ","p","a","r","a","m","è","t","r","e","s"," ","d","e"," ","d","i","s","p","o","n","i","b","i","l","i","t","é"," ","d","u"," ","p","a","r","e","n","t">>)) @@
    ("always_open" :> StatusMetadata(<<"p","u","b","l","i","c">>, <<"#","4","C","A","F","5","0">>,
         <<"A","l","w","a","y","s"," ","O","p","e","n">>,
         <<"T","o","u","j","o","u","r","s"," ","o","u","v","e","r","t">>,
         <<"A","l","w","a","y","s"," ","O","p","e","n">>,
         <<"T","o","u","j","o","u","r","s"," ","o","u","v","e","r","t">>,
         <<"L","o","c","a","t","i","o","n"," ","i","s"," ","a","v","a","i","l","a","b","l","e"," ","2","4","/","7"," ","w","i","t","h","o","u","t"," ","r","e","s","t","r","i","c","t","i","o","n","s">>,
         <<"L","e"," ","l","i","e","u"," ","e","s","t"," ","d","i","s","p","o","n","i","b","l","e"," ","2","4","h","/","2","4",","," ","7","j","/","7"," ","s","a","n","s"," ","r","e","s","t","r","i","c","t","i","o","n","s">>)) @@
    ("closed" :> StatusMetadata(<<"b","l","o","c","k">>, <<"#","F","4","4","3","3","6">>,
         <<"C","l","o","s","e","d">>,
         <<"F","e","r","m","é">>,
         <<"C","l","o","s","e","d">>,
         <<"F","e","r","m","é">>,
         <<"L","o","c","a","t","i","o","n"," ","i","s"," ","c","l","o","s","e","d"," ","a","n","d"," ","u","n","a","v","a","i","l","a","b","l","e"," ","f","o","r"," ","s","e","r","v","i","c","e","s">>,
         <<"L","e"," ","l","i","e","u"," ","e","s","t"," ","f","e","r","m","é"," ","e","t"," ","i","n","d","i","s","p","o","n","i","b","l","e"," ","p","o","u","r"," ","l","e","s"," ","s","e","r","v","i","c","e","s">>)) @@
    ("periods" :> StatusMetadata(<<"s","c","h","e","d","u","l","e">>, <<"#","2","1","9","6","F","3">>,
         <<"P","e","r","i","o","d","s">>,
         <<"P","é","r","i","o","d","e","s">>,
         <<"C","u","s","t","o","m"," ","P","e","r","i","o","d","s">>,
         <<"P","é","r","i","o","d","e","s"," ","p","e","r","s","o","n","n","a","l","i","s","é","e","s">>,
         <<"L","o","c","a","t","i","o","n"," ","h","a","s"," ","c","u","s","t","o","m"," ","a","v","a","i","l","a","b","i","l","i","t","y"," ","p","e","r","i","o","d","s">>,
         <<"L","e"," ","l","i","e","u"," ","a"," ","d","e","s"," ","p","é","r","i","o","d","e","s"," ","d","e"," ","d","i","s","p","o","n","i","b","i","l","i","t","é"," ","p","e","r","s","o","n","n","a","l","i","s","é","e","s">>)))

MEDICAL_HISTORY_STATUS_METADATA ==
  JSObject(<<"current", "expired">>,
    ("current" :> StatusMetadata(<<"c","h","e","c","k","_","c","i","r","c","l","e">>, <<"#","4","C","A","F","5","0">>,
         <<"A","c","t","i","v","e">>,
         <<"A","c","t","i","f">>,
         <<"C","u","r","r","e","n","t","l","y"," ","A","c","t","i","v","e">>,
         <<"A","c","t","u","e","l","l","e","m","e","n","t"," ","a","c","t","i","f">>,
         <<"M","e","d","i","c","a","l"," ","h","i","s","t","o","r","y"," ","r","e","c","o","r","d"," ","i","s"," ","c","u","r","r","e","n","t","l","y"," ","a","c","t","i","v","e"," ","a","n","d"," ","r","e","l","e","v","a","n","t">>,
         <<"L","'","h","i","s","t","o","r","i","q","u","e"," ","m","é","d","i","c","a","l"," ","e","s","t"," ","a","c","t","u","e","l","l","e","m","e","n","t"," ","a","c","t","i","f"," ","e","t"," ","p","e","r","t","i","n","e","n","t">>)) @@
    ("expired" :> StatusMetadata(<<"d","o","_","n","o","t","_","d","i","s","t","u","r","b","_","o","n">>, <<"#","8","0","8","0","8","0">>,
         <<"E","x","p","i","r","e","d">>,
         <<"E","x","p","i","r","é">>,
         <<"E","x","p","i","r","e","d"," ","R","e","c","o","r","d">>,
         <<"E","n","r","e","g","i","s","t","r","e","m","e","n","t"," ","e","x","p","i","r","é">>,
         <<"M","e","d","i","c","a","l"," ","h","i","s","t","o","r","y"," ","r","e","c","o","r","d"," ","h","a","s"," ","e","x","p","i","r","e","d"," ","a","n","d"," ","i","s"," ","n","o"," ","l","o","n","g","e","r"," ","c","u","r","r","e","n","t">>,
         <<"L","'","h","i","s","t","o","r","i","q","u","e"," ","m","é","d","i","c","a","l"," ","a"," ","e","x","p","i","r","é"," ","e","t"," ","n","'","e","s","t"," ","p","l","u","s"," ","a","c","t","u","e","l">>)))

YES_NO_METADATA ==
  JSObject(<<"true", "false">>,
    ("true" :> StatusMetadata(<<"c","h","e","c","k","_","c","i","r","c","l","e">>, <<"#","4","C","A","F","5","0">>,
         <<"Y","e","s">>,
         <<"O","u","i">>,
         <<"Y","e","s">>,
         <<"O","u","i">>,
         <<"S","t","a","t","u","s"," ","i","s"," ","a","c","t","i","v","e"," ","o","r"," ","e","n","a","b","l","e","d">>,
         <<"L","e"," ","s","t","a","t","u","t"," ","e","s","t"," ","a","c","t","i","f"," ","o","u"," ","a","c","t","i","v","é">>)) @@
    ("false" :> StatusMetadata(<<"c","a","n","c","e","l">>, <<"#","F","4","4","3","3","6">>,
         <<"N","o">>,
         <<"N","o","n">>,
         <<"N","o">>,
         <<"N","o","n">>,
         <<"S","t","a","t","u","s"," ","i","s"," ","i","n","a","c","t","i","v","e"," ","o","r"," ","d","i","s","a","b","l","e","d">>,
         <<"L","e"," ","s","t","a","t","u","t"," ","e","s","t"," ","i","n","a","c","t","i","f"," ","o","u"," ","d","é","s","a","c","t","i","v","é">>)))

ACTIVE_INACTIVE_METADATA ==
  JSObject(<<"true", "false">>,
    ("true" :> StatusMetadata(<<"c","h","e","c","k","_","c","i","r","c","l","e">>, <<"#","4","C","A","F","5","0">>,
         <<"A","c","t","i","v","e">>,
         <<"A","c","t","i","f">>,
         <<"A","c","t","i","v","e">>,
         <<"A","c","t","i","f">>,
         <<"S","t","a","t","u","s"," ","i","s"," ","a","c","t","i","v","e"," ","o","r"," ","e","n","a","b","l","e","d">>,
         <<"L","e"," ","s","t","a","t","u","t"," ","e","s","t"," ","a","c","t","i","f"," ","o","u"," ","a","c","t","i","v","é">>)) @@
    ("false" :> StatusMetadata(<<"c","a","n","c","e","l">>, <<"#","F","4","4","3","3","6">>,
         <<"I","n","a","c","t","i","v","e">>,
         <<"I","n","a","c","t","i","f">>,
         <<"I","n","a","c","t","i","v","e">>,
         <<"I","n","a","c","t","i","f">>,
         <<"S","t","a","t","u","s"," ","i","s"," ","i","n","a","c","t","i","v","e"," ","o","r"," ","d","i","s","a","b","l","e","d">>,
         <<"L","e"," ","s","t","a","t","u","t"," ","e","s","t"," ","i","n","a","c","t","i","f"," ","o","u"," ","d","é","s","a","c","t","i","v","é">>)))

ENABLED_DISABLED_METADATA ==
  JSObject(<<"true", "false">>,
    ("true" :> StatusMetadata(<<"c","h","e","c","k","_","c","i","r","c","l","e">>, <<"#","4","C","A","F","5","0">>,
         <<"E","n","a","b","l","e","d">>,
         <<"A","c","t","i","v","é">>,
         <<"E","n","a","b","l","e","d">>,
         <<"A","c","t","i","v","é">>,
         <<"S","t","a","t","u","s"," ","i","s"," ","e","n","a","b","l","e","d">>,
         <<"L","e"," ","s","t","a","t","u","t"," ","e","s","t"," ","a","c","t","i","v","é">>)) @@
    ("false" :> StatusMetadata(<<"c","a","n","c","e","l">>, <<"#","F","4","4","3","3","6">>,
         <<"D","i","s","a","b","l","e","d">>,
         <<"D","é","s","a","c","t","i","v","é">>,
         <<"D","i","s","a","b","l","e","d">>,
         <<"D","é","s","a","c","t","i","v","é">>,
         <<"S","t","a","t","u","s"," ","i","s"," ","d","i","s","a","b","l","e","d">>,
         <<"L","e"," ","s","t","a","t","u","t"," ","e","s","t"," ","d","é","s","a","c","t","i","v","é">>)))

VALID_INVALID_METADATA ==
  JSObject(<<"true", "false">>,
    ("true" :> StatusMetadata(<<"c","h","e","c","k","_","c","i","r","c","l","e">>, <<"#","4","C","A","F","5","0">>,
         <<"V","a","l","i","d">>,
         <<"V","a","l","i","d","e">>,
         <<"V","a","l","i","d">>,
         <<"V","a","l","i","d","e">>,
         <<"S","t","a","t","u","s"," ","i","s"," ","v","a","l","i","d">>,
         <<"L","e"," ","s","t","a","t","u","t"," ","e","s","t"," ","v","a","l","i","d","e">>)) @@
    ("false" :> StatusMetadata(<<"c","a","n","c","e","l">>, <<"#","F","4","4","3","3","6">>,
         <<"I","n","v","a","l","i","d">>,
         <<"I","n","v","a","l","i","d","e">>,
         <<"I","n","v","a","l","i","d">>,
         <<"I","n","v","a","l","i","d","e">>,
         <<"S","t","a","t","u","s"," ","i","s"," ","i","n","v","a","l","i","d">>,
         <<"L","e"," ","s","t","a","t","u","t"," ","e","s","t"," ","i","n","v","a","l","i","d","e">>)))

(* --------------------- status/medical-service-status.ts ---------------- *)

\* enum MedicalServiceStatus, in declaration order
MedicalServiceStatus == <<"pending", "in_progress", "on_waiting_room", "canceled", "completed">>

\* mutant: a target misspelt, so it names no status with metadata
MEDICAL_SERVICE_STATUS_TRANSITIONS_misspeltTarget ==
  JSObject(<<"pending", "on_waiting_room", "in_progress", "completed", "canceled">>,
    [pending |-> JSArray(<<"on_waiting_room", "in_progress", "cancelled">>),
     on_waiting_room |-> JSArray(<<"in_progress", "canceled", "pending">>),
     in_progress |-> JSArray(<<"completed", "canceled">>),
     completed |-> JSArray(<<"in_progress">>),
     canceled |-> JSArray(<<"pending">>)])

\* mutant: completed has no way out
MEDICAL_SERVICE_STATUS_TRANSITIONS_completedTerminal ==
  JSObject(<<"pending", "on_waiting_room", "in_progress", "completed", "canceled">>,
    [pending |-> JSArray(<<"on_waiting_room", "in_progress", "canceled">>),
     on_waiting_room |-> JSArray(<<"in_progress", "canceled", "pending">>),
     in_progress |-> JSArray(<<"completed", "canceled">>),
     completed |-> JSArray(<< >>),
     canceled |-> JSArray(<<"pending">>)])

\* mutant: a completed service can be canceled
MEDICAL_SERVICE_STATUS_TRANSITIONS_completedToCanceled ==
  JSObject(<<"pending", "on_waiting_room", "in_progress", "completed", "canceled">>,
    [pending |-> JSArray(<<"on_waiting_room", "in_progress", "canceled">>),
     on_waiting_room |-> JSArray(<<"in_progress", "canceled", "pending">>),
     in_progress |-> JSArray(<<"completed", "canceled">>),
     completed |-> JSArray(<<"in_progress", "canceled">>),
     canceled |-> JSArray(<<"pending">>)])

MEDICAL_SERVICE_STATUS_TRANSITIONS ==
  JSObject(<<"pending", "on_waiting_room", "in_progress", "completed", "canceled">>,
    [pending |-> JSArray(<<"on_waiting_room", "in_progress", "canceled">>),
     on_waiting_room |-> JSArray(<<"in_progress", "canceled", "pending">>),
     in_progress |-> JSArray(<<"completed", "canceled">>),
     completed |-> JSArray(<<"in_progress">>),
     canceled |-> JSArray(<<"pending">>)])

\* mutant: the table is read in the wrong direction, TABLE[to] includes from
isValidTransition_reversed(table, from, to) ==
  LET entry == Get(table, to) IN
    IF entry.t = "undefined" THEN Return(JSBoolean(FALSE))
    ELSE IF entry.t = "array"
         THEN Return(JSBoolean(\E i \in DOMAIN entry.items : entry.items[i] = from))
    ELSE Throw("TypeError", <<"includes is not a function", to>>)

\* mutant: going back from in_progress to pending is accepted as well
isValidTransition_backToPending(table, from, to) ==
  LET entry == Get(table, from) IN
    IF entry.t = "undefined" THEN Return(JSBoolean(FALSE))
    ELSE IF entry.t = "array"
         THEN Return(JSBoolean((\E i \in DOMAIN entry.items : entry.items[i] = to)
                                 \/ (from = "in_progress" /\ to = "pending")))
    ELSE Throw("TypeError", <<"includes is not a function", from>>)

\* TABLE[from]?.includes(to) ?? false
\* mutant: staying in the same status is accepted
isValidTransition_orSame(table, from, to) ==
  LET entry == Get(table, from) IN
    IF entry.t = "undefined" THEN Return(JSBoolean(FALSE))
    ELSE IF entry.t = "array"
         THEN Return(JSBoolean(from = to \/ \E i \in DOMAIN entry.items : entry.items[i] = to))
    ELSE Throw("TypeError", <<"includes is not a function", from>>)

isValidTransition(table, from, to) ==
  LET entry == Get(table, from) IN
    IF entry.t = "undefined" THEN Return(JSBoolean(FALSE))
    ELSE IF entry.t = "array"
         THEN Return(JSBoolean(\E i \in DOMAIN entry.items : entry.items[i] = to))
    ELSE Throw("TypeError", <<"includes is not a function", from>>)

\* Object.values(MedicalServiceStatus): the enum's values in declaration order
getAllMedicalServiceStatuses == Return(JSArray(MedicalServiceStatus))

\* the per-feature accessors of the medical service status: they index
\* MEDICAL_SERVICE_STATUS_METADATA (table) with no check of the status
getStatusMetadata(table, status) == Return(Get(table, status))

\* table[status].icon
getStatusIcon(table, status) == GetC(getStatusMetadata(table, status), "icon")

\* table[status].color
getStatusColor(table, status) == GetC(getStatusMetadata(table, status), "color")

\* mutant: the short label whatever the format
getStatusLabel_alwaysShort(table, status, locale, format) ==
  GetC(GetC(GetC(getStatusMetadata(table, status), "label"), "short"), locale)

\* table[status].label[format][locale]
getStatusLabel(table, status, locale, format) ==
  GetC(GetC(GetC(getStatusMetadata(table, status), "label"), format), locale)

\* table[status].description[locale]
getStatusDescription(table, status, locale) ==
  GetC(GetC(getStatusMetadata(table, status), "description"), locale)

\* TABLE[status] ?? []
getAllowedTransitions(table, status) ==
  LET entry == Get(table, status) IN
    IF entry.t = "undefined" THEN Return(JSArray(<< >>)) ELSE Return(entry)

(* ----------------------------- status/index.ts ------------------------- *)

StatusFeature ==
  <<"medicalService", "accountLocation", "medicalHistory", "yesNo", "activeInactive",
    "enabledDisabled", "validInvalid">>

METADATA_REGISTRY ==
  JSObject(StatusFeature,
    [medicalService |-> MEDICAL_SERVICE_STATUS_METADATA,
     accountLocation |-> ACCOUNT_LOCATION_STATUS_METADATA,
     medicalHistory |-> MEDICAL_HISTORY_STATUS_METADATA,
     yesNo |-> YES_NO_METADATA,
     activeInactive |-> ACTIVE_INACTIVE_METADATA,
     enabledDisabled |-> ENABLED_DISABLED_METADATA,
     validInvalid |-> VALID_INVALID_METADATA])

getStatusMetadataForFeature(reg, feature, status) ==
  LET registry == Get(reg, feature) IN
    IF ~Truthy(registry) THEN Throw("Error", <<"Unknown status feature: ", feature>>)
    ELSE LET metadata == Get(registry, status) IN
           IF ~Truthy(metadata)
           THEN Throw("Error", <<"Unknown status for feature ", feature, ": ", status>>)
           ELSE Return(metadata)

\* metadata.label[format][locale]
getStatusLabelForFeature(reg, feature, status, locale, format) ==
  GetC(GetC(GetC(getStatusMetadataForFeature(reg, feature, status), "label"), format), locale)

\* metadata.description[locale]
getStatusDescriptionForFeature(reg, feature, status, locale) ==
  GetC(GetC(getStatusMetadataForFeature(reg, feature, status), "description"), locale)

\* getStatusMetadataForFeature(feature, status).icon
getStatusIconForFeature(reg, feature, status) ==
  GetC(getStatusMetadataForFeature(reg, feature, status), "icon")

\* getStatusMetadataForFeature(feature, status).color
getStatusColorForFeature(reg, feature, status) ==
  GetC(getStatusMetadataForFeature(reg, feature, status), "color")

getAllStatusMetadataForFeature(reg, feature) ==
  LET registry == Get(reg, feature) IN
    IF ~Truthy(registry) THEN Throw("Error", <<"Unknown status feature: ", feature>>)
    ELSE Return(registry)

\* mutant: the keys of the registry are listed, not those of the feature
getAllStatusesForFeature_registryKeys(reg, feature) ==
  LET metadata == getAllStatusMetadataForFeature(reg, feature) IN
    IF metadata.kind = "throw" THEN metadata
    ELSE Return(JSArray(ObjectKeys(reg)))

getAllStatusesForFeature(reg, feature) ==
  LET metadata == getAllStatusMetadataForFeature(reg, feature) IN
    IF metadata.kind = "throw" THEN metadata
    ELSE Return(JSArray(ObjectKeys(metadata.value)))

\* first index of a non-empty set of indices
MinIndex(indices) == CHOOSE i \in indices : \A j \in indices : i <= j

\* mutant: the kept statuses are collected last to first
RECURSIVE KeepFlagged_reversed(_, _)
KeepFlagged_reversed(entries, flags) ==
  IF Len(entries) = 0 THEN << >>
  ELSE KeepFlagged_reversed(Tail(entries), Tail(flags))
         \o (IF Head(flags) THEN <<Head(entries)[1]>> ELSE << >>)

\* the statuses of the entries whose flag is set, in entry order
RECURSIVE KeepFlagged(_, _)
KeepFlagged(entries, flags) ==
  IF Len(entries) = 0 THEN << >>
  ELSE (IF Head(flags) THEN <<Head(entries)[1]>> ELSE << >>)
         \o KeepFlagged(Tail(entries), Tail(flags))

\* the [status, metadata] entries a callback can be handed for the feature
CallbackEntries(reg, feature) ==
  LET metadata == getAllStatusMetadataForFeature(reg, feature) IN
    IF metadata.kind = "throw" THEN {} ELSE Range(ObjectEntries(metadata.value))

\* Object.entries(metadata).filter(predicate).map(status); the predicate is a
\* callback, given as the function from each entry to the completion of its
\* call; it is called entry by entry and its first throw ends the call
filterStatusesByFeature(reg, feature, predicate) ==
  LET metadata == getAllStatusMetadataForFeature(reg, feature) IN
    IF metadata.kind = "throw" THEN metadata
    ELSE LET entries == ObjectEntries(metadata.value)
             verdicts == [i \in DOMAIN entries |-> predicate[entries[i]]]
             thrown == {i \in DOMAIN entries : verdicts[i].kind = "throw"}
         IN IF thrown # {} THEN verdicts[MinIndex(thrown)]
            ELSE Return(JSArray(KeepFlagged(entries,
                                  [i \in DOMAIN entries |-> Truthy(verdicts[i].value)])))

\* Object.entries(metadata).forEach: result[status] = transform(meta, status);
\* the transform is a callback, given like the predicate above
mapStatusesByFeature(reg, feature, transform) ==
  LET metadata == getAllStatusMetadataForFeature(reg, feature) IN
    IF metadata.kind = "throw" THEN metadata
    ELSE LET entries == ObjectEntries(metadata.value)
             values == [i \in DOMAIN entries |-> transform[entries[i]]]
             thrown == {i \in DOMAIN entries : values[i].kind = "throw"}
         IN IF thrown # {} THEN values[MinIndex(thrown)]
            ELSE Return(JSObject([i \in DOMAIN entries |-> entries[i][1]],
                          [status \in {entries[i][1] : i \in DOMAIN entries} |->
                             transform[<<status, metadata.value.map[status]>>].value]))

\* the object literal is evaluated property by property; the first read that
\* throws ends the call
getExtendedStatusMetadataForFeature(reg, feature, status, locale) ==
  LET metadata == getStatusMetadataForFeature(reg, feature, status)
      keys == <<"icon", "color", "label", "shortLabel", "longLabel", "description">>
      reads == [icon |-> GetC(metadata, "icon"),
                color |-> GetC(metadata, "color"),
                label |-> GetC(metadata, "label"),
                shortLabel |-> GetC(GetC(GetC(metadata, "label"), "short"), locale),
                longLabel |-> GetC(GetC(GetC(metadata, "label"), "long"), locale),
                description |-> GetC(GetC(metadata, "description"), locale)]
      thrown == {i \in DOMAIN keys : reads[keys[i]].kind = "throw"}
  IN IF thrown # {} THEN reads[keys[MinIndex(thrown)]]
     ELSE Return(JSObject(keys, [key \in DOMAIN reads |-> reads[key].value]))

UPPER_CASE ==
  <<"A", "B", "C", "D", "E", "F", "G", "H", "I", "J", "K", "L", "M", "N", "O", "P", "Q", "R",
    "S", "T", "U", "V", "W", "X", "Y", "Z", "É", "È", "À">>

LOWER_CASE ==
  <<"a", "b", "c", "d", "e", "f", "g", "h", "i", "j", "k", "l", "m", "n", "o", "p", "q", "r",
    "s", "t", "u", "v", "w", "x", "y", "z", "é", "è", "à">>

\* String.prototype.toLowerCase, character by character
toLowerCase(s) ==
  [i \in 1..Len(s) |->
     IF \E k \in DOMAIN UPPER_CASE : UPPER_CASE[k] = s[i]
     THEN LOWER_CASE[CHOOSE k \in DOMAIN UPPER_CASE : UPPER_CASE[k] = s[i]]
     ELSE s[i]]

\* completion.toLowerCase(): a TypeError on anything but a string
toLowerCaseC(completion) ==
  IF completion.kind = "throw" THEN completion
  ELSE IF completion.value.t = "string"
       THEN Return(JSString(toLowerCase(completion.value.s)))
  ELSE Throw("TypeError", <<"toLowerCase is not a function">>)

\* String.prototype.includes
includes(s, search) ==
  \E i \in 0..(Len(s) - Len(search)) : SubSeq(s, i + 1, i + Len(search)) = search

\* the predicate searchStatusesByFeature hands to filterStatusesByFeature
searchPredicate(metadata, lowerSearch, locale) ==
  LET shortLabel == toLowerCaseC(GetC(GetC(GetC(Return(metadata), "label"), "short"), locale))
      longLabel == toLowerCaseC(GetC(GetC(GetC(Return(metadata), "label"), "long"), locale))
      description == toLowerCaseC(GetC(GetC(Return(metadata), "description"), locale))
  IN IF shortLabel.kind = "throw" THEN shortLabel
     ELSE IF longLabel.kind = "throw" THEN longLabel
     ELSE IF description.kind = "throw" THEN description
     ELSE Return(JSBoolean(\/ includes(shortLabel.value.s, lowerSearch)
                           \/ includes(longLabel.value.s, lowerSearch)
                           \/ includes(description.value.s, lowerSearch)))

\* mutant: only the two labels are searched, the description is left out
searchStatusesByFeature_labelsOnly(reg, feature, searchTerm, locale) ==
  filterStatusesByFeature(reg, feature,
    [entry \in CallbackEntries(reg, feature) |->
      LET shortLabel == toLowerCaseC(GetC(GetC(GetC(Return(entry[2]), "label"), "short"), locale))
          longLabel == toLowerCaseC(GetC(GetC(GetC(Return(entry[2]), "label"), "long"), locale))
      IN IF shortLabel.kind = "throw" THEN shortLabel
         ELSE IF longLabel.kind = "throw" THEN longLabel
         ELSE Return(JSBoolean(\/ includes(shortLabel.value.s, toLowerCase(searchTerm))
                               \/ includes(longLabel.value.s, toLowerCase(searchTerm))))])

searchStatusesByFeature(reg, feature, searchTerm, locale) ==
  LET lowerSearch == toLowerCase(searchTerm) IN
    filterStatusesByFeature(reg, feature,
      [entry \in CallbackEntries(reg, feature) |-> searchPredicate(entry[2], lowerSearch, locale)])

\* mutant: the status that opens a group is not pushed into it
RECURSIVE groupEntries_pushInElseOnly(_, _, _)
groupEntries_pushInElseOnly(entries, field, grouped) ==
  IF Len(entries) = 0 THEN grouped
  ELSE LET status == Head(entries)[1]
           key == Get(Head(entries)[2], field).s
       IN groupEntries_pushInElseOnly(Tail(entries), field,
            IF key \in DOMAIN grouped.map
            THEN JSObject(grouped.keys,
                   [grouped.map EXCEPT ![key] = JSArray(Append(@.items, status))])
            ELSE JSObject(Append(grouped.keys, key), grouped.map @@ (key :> JSArray(<< >>))))

\* the forEach loop of the two group functions: open the group of the entry's
\* field value if there is none yet, then push the status.  No icon or color
\* of the tables names an inherited member, so `!grouped[key]` is "no own key".
RECURSIVE groupEntries(_, _, _)
groupEntries(entries, field, grouped) ==
  IF Len(entries) = 0 THEN grouped
  ELSE LET status == Head(entries)[1]
           key == Get(Head(entries)[2], field).s
           opened == IF key \in DOMAIN grouped.map THEN grouped
                     ELSE JSObject(Append(grouped.keys, key),
                                   grouped.map @@ (key :> JSArray(<< >>)))
       IN groupEntries(Tail(entries), field,
            JSObject(opened.keys,
              [opened.map EXCEPT ![key] = JSArray(Append(@.items, status))]))

groupStatusesByColorForFeature(reg, feature) ==
  LET metadata == getAllStatusMetadataForFeature(reg, feature) IN
    IF metadata.kind = "throw" THEN metadata
    ELSE Return(groupEntries(ObjectEntries(metadata.value), "color", JSObject(<< >>, << >>)))

groupStatusesByIconForFeature(reg, feature) ==
  LET metadata == getAllStatusMetadataForFeature(reg, feature) IN
    IF metadata.kind = "throw" THEN metadata
    ELSE Return(groupEntries(ObjectEntries(metadata.value), "icon", JSObject(<< >>, << >>)))

(* ------------------------- operations/resources.ts --------------------- *)

\* The enum values are strings, written character by character.  The values
\* of Resource in declaration order, as Object.values lists them.
Resource ==
  <<
    <<"P","A","T","I","E","N","T">>,
    <<"M","E","D","I","C","A","L","_","R","E","C","O","R","D">>,
    <<"P","R","E","S","C","R","I","P","T","I","O","N">>,
    <<"D","I","A","G","N","O","S","I","S">>,
    <<"A","P","P","O","I","N","T","M","E","N","T">>,
    <<"L","A","B","_","R","E","S","U","L","T">>,
    <<"I","M","A","G","I","N","G">>,
    <<"V","I","T","A","L","_","S","I","G","N","S">>,
    <<"M","E","D","I","C","A","T","I","O","N">>,
    <<"A","L","L","E","R","G","Y">>,
    <<"I","M","M","U","N","I","Z","A","T","I","O","N">>,
    <<"P","R","O","C","E","D","U","R","E">>,
    <<"C","L","I","N","I","C","A","L","_","N","O","T","E">>,
    <<"U","S","E","R">>,
    <<"P","R","O","F","I","L","E">>,
    <<"N","O","T","I","F","I","C","A","T","I","O","N">>,
    <<"S","E","T","T","I","N","G","S">>,
    <<"R","E","P","O","R","T">>,
    <<"A","U","D","I","T","_","L","O","G">>,
    <<"S","Y","S","T","E","M">>
  >>

\* mutant: PATIENT is missing from the medical resources
MEDICAL_RESOURCES_withoutPatient ==
  <<
    <<"M","E","D","I","C","A","L","_","R","E","C","O","R","D">>,
    <<"P","R","E","S","C","R","I","P","T","I","O","N">>,
    <<"D","I","A","G","N","O","S","I","S">>,
    <<"A","P","P","O","I","N","T","M","E","N","T">>,
    <<"L","A","B","_","R","E","S","U","L","T">>,
    <<"I","M","A","G","I","N","G">>,
    <<"V","I","T","A","L","_","S","I","G","N","S">>,
    <<"M","E","D","I","C","A","T","I","O","N">>,
    <<"A","L","L","E","R","G","Y">>,
    <<"I","M","M","U","N","I","Z","A","T","I","O","N">>,
    <<"P","R","O","C","E","D","U","R","E">>,
    <<"C","L","I","N","I","C","A","L","_","N","O","T","E">>
  >>

MEDICAL_RESOURCES ==
  <<
    <<"P","A","T","I","E","N","T">>,
    <<"M","E","D","I","C","A","L","_","R","E","C","O","R","D">>,
    <<"P","R","E","S","C","R","I","P","T","I","O","N">>,
    <<"D","I","A","G","N","O","S","I","S">>,
    <<"A","P","P","O","I","N","T","M","E","N","T">>,
    <<"L","A","B","_","R","E","S","U","L","T">>,
    <<"I","M","A","G","I","N","G">>,
    <<"V","I","T","A","L","_","S","I","G","N","S">>,
    <<"M","E","D","I","C","A","T","I","O","N">>,
    <<"A","L","L","E","R","G","Y">>,
    <<"I","M","M","U","N","I","Z","A","T","I","O","N">>,
    <<"P","R","O","C","E","D","U","R","E">>,
    <<"C","L","I","N","I","C","A","L","_","N","O","T","E">>
  >>

\* mutant: PATIENT is listed as a public resource too
PUBLIC_RESOURCES_withPatient ==
  <<
    <<"U","S","E","R">>,
    <<"P","R","O","F","I","L","E">>,
    <<"N","O","T","I","F","I","C","A","T","I","O","N">>,
    <<"S","E","T","T","I","N","G","S">>,
    <<"R","E","P","O","R","T">>,
    <<"A","U","D","I","T","_","L","O","G">>,
    <<"S","Y","S","T","E","M">>,
    <<"P","A","T","I","E","N","T">>
  >>

PUBLIC_RESOURCES ==
  <<
    <<"U","S","E","R">>,
    <<"P","R","O","F","I","L","E">>,
    <<"N","O","T","I","F","I","C","A","T","I","O","N">>,
    <<"S","E","T","T","I","N","G","S">>,
    <<"R","E","P","O","R","T">>,
    <<"A","U","D","I","T","_","L","O","G">>,
    <<"S","Y","S","T","E","M">>
  >>

\* MEDICAL_RESOURCES.includes(resource)
isMedicalResource(resource) == Return(JSBoolean(resource \in Range(MEDICAL_RESOURCES)))

\* PUBLIC_RESOURCES.includes(resource)
isPublicResource(resource) == Return(JSBoolean(resource \in Range(PUBLIC_RESOURCES)))

\* The other resources file of the repository: a longer Resource enum, and the
\* two lists kept as the buckets of RESOURCE_CATEGORIES.
ResourceCategorised ==
  <<
    <<"A","C","C","O","U","N","T">>,
    <<"A","C","C","O","U","N","T","_","O","W","N","E","R","S","H","I","P">>,
    <<"A","C","C","O","U","N","T","_","P","R","E","F","E","R","E","N","C","E","S">>,
    <<"U","S","E","R">>,
    <<"C","O","N","T","A","C","T">>,
    <<"P","A","T","I","E","N","T">>,
    <<"P","A","T","I","E","N","T","_","M","E","D","I","C","A","L","_","N","O","T","E","S">>,
    <<"P","A","T","I","E","N","T","_","M","E","D","I","C","A","L","_","P","R","O","P","E","R","T","I","E","S">>,
    <<"P","A","T","I","E","N","T","_","P","U","B","L","I","C","_","P","R","O","P","E","R","T","I","E","S">>,
    <<"P","A","T","I","E","N","T","_","P","A","Y","M","E","N","T">>,
    <<"M","E","D","I","C","A","L","_","S","E","R","V","I","C","E">>,
    <<"M","E","D","I","C","A","L","_","S","E","R","V","I","C","E","_","N","O","T","E">>,
    <<"M","E","D","I","C","A","L","_","S","E","R","V","I","C","E","_","S","C","H","E","D","U","L","E">>,
    <<"M","E","D","I","C","A","L","_","S","E","R","V","I","C","E","_","F","E","E","S">>,
    <<"M","E","D","I","C","A","L","_","S","E","R","V","I","C","E","_","S","T","A","T","U","S">>,
    <<"M","E","D","I","C","A","L","_","N","O","T","E">>,
    <<"M","E","D","I","C","A","L","_","R","E","C","O","R","D">>,
    <<"M","E","D","I","C","A","L","_","H","I","S","T","O","R","Y">>,
    <<"M","E","D","I","C","A","L","_","H","I","S","T","O","R","Y","_","M","O","D","E","L">>,
    <<"P","R","E","S","C","R","I","P","T","I","O","N">>,
    <<"P","R","E","S","C","R","I","P","T","I","O","N","_","M","O","D","E","L">>,
    <<"D","I","A","G","N","O","S","I","S">>,
    <<"O","B","S","E","R","V","A","T","I","O","N">>,
    <<"M","E","D","I","C","A","T","I","O","N">>,
    <<"A","L","L","E","R","G","Y">>,
    <<"I","M","M","U","N","I","Z","A","T","I","O","N">>,
    <<"P","R","O","C","E","D","U","R","E">>,
    <<"C","L","I","N","I","C","A","L","_","N","O","T","E">>,
    <<"V","I","T","A","L","_","S","I","G","N","S">>,
    <<"M","E","A","S","U","R","E","_","M","O","D","E","L">>,
    <<"C","A","L","C","U","L","A","T","E","D","_","M","E","A","S","U","R","E","_","M","O","D","E","L">>,
    <<"U","P","L","O","A","D","E","D","_","D","O","C","U","M","E","N","T">>,
    <<"D","O","C","U","M","E","N","T","_","L","A","Y","O","U","T">>,
    <<"G","E","N","E","R","A","T","E","D","_","D","O","C","U","M","E","N","T">>,
    <<"D","O","C","U","M","E","N","T","_","M","O","D","E","L">>,
    <<"S","N","I","P","P","E","T">>,
    <<"L","O","C","A","T","I","O","N">>,
    <<"T","A","S","K","_","T","Y","P","E">>,
    <<"L","A","B","_","R","E","S","U","L","T">>,
    <<"I","M","A","G","I","N","G">>,
    <<"M","E","M","B","E","R","S","H","I","P">>,
    <<"S","E","T","T","I","N","G","S">>,
    <<"N","O","T","I","F","I","C","A","T","I","O","N">>,
    <<"U","S","E","R","_","P","R","E","F","E","R","E","N","C","E","S">>,
    <<"C","A","L","E","N","D","A","R","_","S","Y","N","C","_","S","E","T","T","I","N","G","S">>,
    <<"R","E","P","O","R","T">>,
    <<"A","U","D","I","T","_","L","O","G">>,
    <<"S","Y","S","T","E","M">>,
    <<"P","U","B","L","I","C","_","R","E","S","O","U","R","C","E">>,
    <<"M","E","D","I","C","A","L","_","R","E","S","O","U","R","C","E">>
  >>

RESOURCE_CATEGORIES ==
  [medical |-> <<
      <<"P","A","T","I","E","N","T">>,
      <<"P","A","T","I","E","N","T","_","M","E","D","I","C","A","L","_","N","O","T","E","S">>,
      <<"P","A","T","I","E","N","T","_","M","E","D","I","C","A","L","_","P","R","O","P","E","R","T","I","E","S">>,
      <<"P","A","T","I","E","N","T","_","P","A","Y","M","E","N","T">>,
      <<"M","E","D","I","C","A","L","_","S","E","R","V","I","C","E">>,
      <<"M","E","D","I","C","A","L","_","S","E","R","V","I","C","E","_","N","O","T","E">>,
      <<"M","E","D","I","C","A","L","_","S","E","R","V","I","C","E","_","S","C","H","E","D","U","L","E">>,
      <<"M","E","D","I","C","A","L","_","S","E","R","V","I","C","E","_","F","E","E","S">>,
      <<"M","E","D","I","C","A","L","_","S","E","R","V","I","C","E","_","S","T","A","T","U","S">>,
      <<"M","E","D","I","C","A","L","_","N","O","T","E">>,
      <<"M","E","D","I","C","A","L","_","R","E","C","O","R","D">>,
      <<"M","E","D","I","C","A","L","_","H","I","S","T","O","R","Y">>,
      <<"M","E","D","I","C","A","L","_","H","I","S","T","O","R","Y","_","M","O","D","E","L">>,
      <<"P","R","E","S","C","R","I","P","T","I","O","N">>,
      <<"P","R","E","S","C","R","I","P","T","I","O","N","_","M","O","D","E","L">>,
      <<"D","I","A","G","N","O","S","I","S">>,
      <<"O","B","S","E","R","V","A","T","I","O","N">>,
      <<"M","E","D","I","C","A","T","I","O","N">>,
      <<"A","L","L","E","R","G","Y">>,
      <<"I","M","M","U","N","I","Z","A","T","I","O","N">>,
      <<"P","R","O","C","E","D","U","R","E">>,
      <<"C","L","I","N","I","C","A","L","_","N","O","T","E">>,
      <<"V","I","T","A","L","_","S","I","G","N","S">>,
      <<"M","E","A","S","U","R","E","_","M","O","D","E","L">>,
      <<"C","A","L","C","U","L","A","T","E","D","_","M","E","A","S","U","R","E","_","M","O","D","E","L">>,
      <<"L","A","B","_","R","E","S","U","L","T">>,
      <<"I","M","A","G","I","N","G">>,
      <<"M","E","D","I","C","A","L","_","R","E","S","O","U","R","C","E">>
    >>,
   public |-> <<
      <<"A","C","C","O","U","N","T">>,
      <<"A","C","C","O","U","N","T","_","O","W","N","E","R","S","H","I","P">>,
      <<"A","C","C","O","U","N","T","_","P","R","E","F","E","R","E","N","C","E","S">>,
      <<"U","S","E","R">>,
      <<"C","O","N","T","A","C","T">>,
      <<"P","A","T","I","E","N","T","_","P","U","B","L","I","C","_","P","R","O","P","E","R","T","I","E","S">>,
      <<"U","P","L","O","A","D","E","D","_","D","O","C","U","M","E","N","T">>,
      <<"D","O","C","U","M","E","N","T","_","L","A","Y","O","U","T">>,
      <<"G","E","N","E","R","A","T","E","D","_","D","O","C","U","M","E","N","T">>,
      <<"D","O","C","U","M","E","N","T","_","M","O","D","E","L">>,
      <<"S","N","I","P","P","E","T">>,
      <<"L","O","C","A","T","I","O","N">>,
      <<"T","A","S","K","_","T","Y","P","E">>,
      <<"M","E","M","B","E","R","S","H","I","P">>,
      <<"S","E","T","T","I","N","G","S">>,
      <<"N","O","T","I","F","I","C","A","T","I","O","N">>,
      <<"U","S","E","R","_","P","R","E","F","E","R","E","N","C","E","S">>,
      <<"C","A","L","E","N","D","A","R","_","S","Y","N","C","_","S","E","T","T","I","N","G","S">>,
      <<"R","E","P","O","R","T">>,
      <<"A","U","D","I","T","_","L","O","G">>,
      <<"S","Y","S","T","E","M">>,
      <<"P","U","B","L","I","C","_","R","E","S","O","U","R","C","E">>
    >>]

\* RESOURCE_CATEGORIES.medical.indexOf(resource) !== -1
isMedicalResourceCategorised(resource) ==
  Return(JSBoolean(\E i \in DOMAIN RESOURCE_CATEGORIES.medical :
                     RESOURCE_CATEGORIES.medical[i] = resource))

\* RESOURCE_CATEGORIES.public.indexOf(resource) !== -1
isPublicResourceCategorised(resource) ==
  Return(JSBoolean(\E i \in DOMAIN RESOURCE_CATEGORIES.public :
                     RESOURCE_CATEGORIES.public[i] = resource))

\* [...RESOURCE_CATEGORIES.medical, ...RESOURCE_CATEGORIES.public]
getAllResources == Return(JSArray(RESOURCE_CATEGORIES.medical \o RESOURCE_CATEGORIES.public))

(* -------------------------- operations/actions.ts ---------------------- *)

\* the values of Action in declaration order
Action ==
  <<
    <<"C","R","E","A","T","E">>,
    <<"R","E","A","D">>,
    <<"U","P","D","A","T","E">>,
    <<"D","E","L","E","T","E">>,
    <<"L","I","S","T">>,
    <<"G","R","A","N","T">>,
    <<"R","E","V","O","K","E">>,
    <<"P","R","E","S","C","R","I","B","E">>,
    <<"D","I","A","G","N","O","S","E">>,
    <<"S","C","H","E","D","U","L","E">>,
    <<"C","A","N","C","E","L">>,
    <<"A","P","P","R","O","V","E">>,
    <<"R","E","J","E","C","T">>,
    <<"S","I","G","N">>,
    <<"V","E","R","I","F","Y">>,
    <<"E","X","P","O","R","T">>,
    <<"I","M","P","O","R","T">>,
    <<"A","R","C","H","I","V","E">>,
    <<"R","E","S","T","O","R","E">>,
    <<"S","H","A","R","E">>,
    <<"D","O","W","N","L","O","A","D">>,
    <<"U","P","L","O","A","D">>,
    <<"L","O","G","I","N">>,
    <<"L","O","G","O","U","T">>,
    <<"C","O","N","F","I","G","U","R","E">>,
    <<"A","U","D","I","T">>
  >>

(* ------------------------- operations/operation.ts --------------------- *)

JSNull == [t |-> "null"]

\* new Operation(resource, action)
Operation(resource, action) == [t |-> "Operation", resource |-> resource, action |-> action]

\* String.prototype.split with a one-character separator: the pieces between
\* the occurrences of the separator, empty pieces included
RECURSIVE split(_, _)
split(s, separator) ==
  IF \A i \in DOMAIN s : s[i] # separator THEN <<s>>
  ELSE LET first == MinIndex({i \in DOMAIN s : s[i] = separator})
       IN <<SubSeq(s, 1, first - 1)>> \o split(SubSeq(s, first + 1, Len(s)), separator)

\* mutant: parts after the second are ignored
fromString_extraPartsIgnored(operationString) ==
  LET parts == split(operationString, ":") IN
    IF Len(parts) < 2 THEN Return(JSNull)
    ELSE IF parts[1] \notin Range(Resource) THEN Return(JSNull)
    ELSE IF parts[2] \notin Range(Action) THEN Return(JSNull)
    ELSE Return(Operation(parts[1], parts[2]))

\* Operation.fromString
fromString(operationString) ==
  LET parts == split(operationString, ":") IN
    IF Len(parts) # 2 THEN Return(JSNull)
    ELSE IF parts[1] \notin Range(Resource) THEN Return(JSNull)
    ELSE IF parts[2] \notin Range(Action) THEN Return(JSNull)
    ELSE Return(Operation(parts[1], parts[2]))

\* mutant: resource and action are joined by a dot
toString_dotted(operation) == Return(JSString(operation.resource \o <<".">> \o operation.action))

\* operation.toString(): `${this.resource}:${this.action}`
toString(operation) == Return(JSString(operation.resource \o <<":">> \o operation.action))

\* operation.equals(other)
equals(operation, other) ==
  Return(JSBoolean(operation.resource = other.resource /\ operation.action = other.action))

(* ------------------------------ ssm/keys.ts --------------------------- *)

\* the values of SSM_PARAM_KEY in declaration order
SSM_PARAM_KEY ==
  <<
    <<"u","s","e","r","-","p","o","o","l","-","i","d">>,
    <<"u","s","e","r","-","p","o","o","l","-","w","e","b","-","c","l","i","e","n","t","-","i","d">>,
    <<"o","a","u","t","h","-","d","o","m","a","i","n">>,
    <<"r","u","m","-","g","u","e","s","t","-","r","o","m","e","-","a","r","n">>,
    <<"r","u","m","-","i","d","e","n","t","i","t","y","-","p","o","o","l","-","i","d">>,
    <<"r","u","m","-","a","p","p","-","i","d">>,
    <<"g","r","a","p","h","q","l","-","h","t","t","p","-","u","r","l">>,
    <<"g","r","a","p","h","q","l","-","w","s","-","u","r","l">>,
    <<"g","r","a","p","h","q","l","-","h","o","s","t">>,
    <<"g","r","a","p","h","q","l","-","a","p","i","-","i","d">>,
    <<"m","e","d","i","c","a","l","-","a","s","s","e","t","s","-","d","i","s","t","-","p","r","i","v","a","t","e","-","k","e","y">>,
    <<"m","e","d","i","c","a","l","-","a","s","s","e","t","s","-","d","i","s","t","-","p","u","b","l","i","c","-","k","e","y","-","i","d">>,
    <<"m","e","d","i","c","a","l","-","a","s","s","e","t","s","-","d","i","s","t","-","p","u","b","l","i","c","-","k","e","y">>,
    <<"m","e","d","i","c","a","l","-","a","s","s","e","t","s","-","b","u","c","k","e","t","-","n","a","m","e">>,
    <<"p","u","b","l","i","c","-","a","s","s","e","t","s","-","b","u","c","k","e","t","-","n","a","m","e">>,
    <<"d","b","-","u","s","e","r">>,
    <<"d","b","-","p","a","s","s","w","o","r","d">>,
    <<"m","e","d","i","c","a","l","-","a","s","s","e","t","s","-","d","i","s","t","-","d","o","m","a","i","n","-","n","a","m","e">>,
    <<"b","a","s","e","-","h","o","s","t">>,
    <<"e","m","a","i","l","-","f","r","o","m","-","a","d","d","r","e","s","s">>,
    <<"e","v","e","n","t","-","a","p","i","-","r","e","a","l","-","t","i","m","e","-","d","n","s">>,
    <<"e","v","e","n","t","-","a","p","i","-","h","t","t","p","-","d","n","s">>,
    <<"n","o","t","i","f","i","e","d","-","e","v","e","n","t","-","a","c","t","i","o","n","s">>
  >>

(* ------------------------------ ssm/utils.ts --------------------------- *)

\* mutant: the key is put before the environment
buildSSMPath_keyFirst(env, key) ==
  IF Truthy(env) THEN Return(JSString(<<"/">> \o key \o <<"/">> \o env.s))
  ELSE Return(JSString(<<"/">> \o key))

\* env ? `/${env}/${key}` : `/${key}`
buildSSMPath(env, key) ==
  IF Truthy(env) THEN Return(JSString(<<"/">> \o env.s \o <<"/">> \o key))
  ELSE Return(JSString(<<"/">> \o key))

\* parts[parts.length - 1] of path.split('/'), if it is an enum value
extractKeyFromPath(path) ==
  LET parts == split(path, "/")
      keyValue == parts[Len(parts)]
  IN IF keyValue \in Range(SSM_PARAM_KEY) THEN Return(JSString(keyValue))
     ELSE Return(JSNull)

\* path.match(/^\/([^/]+)\//): a leading '/', then one or more characters that
\* are not '/', then a '/'; match[1] is what stands between the two
extractEnvFromPath(path) ==
  LET later == {i \in DOMAIN path : i > 1 /\ path[i] = "/"} IN
    IF Len(path) >= 1 /\ path[1] = "/" /\ later # {} /\ MinIndex(later) > 2
    THEN Return(JSString(SubSeq(path, 2, MinIndex(later) - 1)))
    ELSE Return(JSNull)

\* mutant: the pieces are counted without dropping the empty ones
isEnvAgnostic_emptyPartsCounted(path) ==
  LET parts == split(path, "/") IN Return(JSBoolean(Len(parts) = 1))

\* path.split('/').filter((p) => p.length > 0).length === 1
isEnvAgnostic(path) ==
  LET parts == SelectSeq(split(path, "/"), LAMBDA p : Len(p) > 0) IN
    Return(JSBoolean(Len(parts) = 1))

(* -------------------------- operations/labels.ts ----------------------- *)

\* the values of the Action enum the label tables are written for (the longer
\* of the two Action enums of the repository), in declaration order
ActionLabelled ==
  <<
    <<"C","R","E","A","T","E">>,
    <<"R","E","A","D">>,
    <<"U","P","D","A","T","E">>,
    <<"D","E","L","E","T","E">>,
    <<"P","U","T">>,
    <<"L","I","S","T">>,
    <<"M","A","N","A","G","E">>,
    <<"V","I","E","W">>,
    <<"S","E","A","R","C","H">>,
    <<"G","R","A","N","T">>,
    <<"R","E","V","O","K","E">>,
    <<"P","R","E","S","C","R","I","B","E">>,
    <<"D","I","A","G","N","O","S","E">>,
    <<"S","C","H","E","D","U","L","E">>,
    <<"C","A","N","C","E","L">>,
    <<"A","P","P","R","O","V","E">>,
    <<"R","E","J","E","C","T">>,
    <<"S","I","G","N">>,
    <<"V","E","R","I","F","Y">>,
    <<"R","E","C","O","V","E","R">>,
    <<"D","I","S","A","B","L","E">>,
    <<"S","E","T","_","M","E","D","I","C","A","L","_","S","E","R","V","I","C","E","_","S","T","A","T","U","S">>,
    <<"S","E","T","_","M","E","D","I","C","A","L","_","S","E","R","V","I","C","E","_","F","E","E","S">>,
    <<"U","P","D","A","T","E","_","S","T","A","T","U","S">>,
    <<"V","I","E","W","_","P","A","T","I","E","N","T","S">>,
    <<"P","U","T","_","P","A","T","I","E","N","T","_","P","A","Y","M","E","N","T">>,
    <<"D","E","L","E","T","E","_","P","A","T","I","E","N","T","_","P","A","Y","M","E","N","T">>,
    <<"E","X","P","O","R","T">>,
    <<"I","M","P","O","R","T">>,
    <<"A","R","C","H","I","V","E">>,
    <<"R","E","S","T","O","R","E">>,
    <<"S","H","A","R","E">>,
    <<"D","O","W","N","L","O","A","D">>,
    <<"U","P","L","O","A","D">>,
    <<"L","O","G","I","N">>,
    <<"L","O","G","O","U","T">>,
    <<"C","O","N","F","I","G","U","R","E">>,
    <<"A","U","D","I","T">>
  >>

enAction ==
  (<<"C","R","E","A","T","E">> :> <<"C","r","e","a","t","e">>)
    @@ (<<"R","E","A","D">> :> <<"R","e","a","d">>)
    @@ (<<"U","P","D","A","T","E">> :> <<"U","p","d","a","t","e">>)
    @@ (<<"D","E","L","E","T","E">> :> <<"D","e","l","e","t","e">>)
    @@ (<<"P","U","T">> :> <<"P","u","t">>)
    @@ (<<"L","I","S","T">> :> <<"L","i","s","t">>)
    @@ (<<"M","A","N","A","G","E">> :> <<"M","a","n","a","g","e">>)
    @@ (<<"V","I","E","W">> :> <<"V","i","e","w">>)
    @@ (<<"S","E","A","R","C","H">> :> <<"S","e","a","r","c","h">>)
    @@ (<<"G","R","A","N","T">> :> <<"G","r","a","n","t">>)
    @@ (<<"R","E","V","O","K","E">> :> <<"R","e","v","o","k","e">>)
    @@ (<<"P","R","E","S","C","R","I","B","E">> :> <<"P","r","e","s","c","r","i","b","e">>)
    @@ (<<"D","I","A","G","N","O","S","E">> :> <<"D","i","a","g","n","o","s","e">>)
    @@ (<<"S","C","H","E","D","U","L","E">> :> <<"S","c","h","e","d","u","l","e">>)
    @@ (<<"C","A","N","C","E","L">> :> <<"C","a","n","c","e","l">>)
    @@ (<<"A","P","P","R","O","V","E">> :> <<"A","p","p","r","o","v","e">>)
    @@ (<<"R","E","J","E","C","T">> :> <<"R","e","j","e","c","t">>)
    @@ (<<"S","I","G","N">> :> <<"S","i","g","n">>)
    @@ (<<"V","E","R","I","F","Y">> :> <<"V","e","r","i","f","y">>)
    @@ (<<"R","E","C","O","V","E","R">> :> <<"R","e","c","o","v","e","r">>)
    @@ (<<"D","I","S","A","B","L","E">> :> <<"D","i","s","a","b","l","e">>)
    @@ (<<"S","E","T","_","M","E","D","I","C","A","L","_","S","E","R","V","I","C","E","_","S","T","A","T","U","S">> :> <<"S","e","t"," ","m","e","d","i","c","a","l"," ","s","e","r","v","i","c","e"," ","s","t","a","t","u","s">>)
    @@ (<<"S","E","T","_","M","E","D","I","C","A","L","_","S","E","R","V","I","C","E","_","F","E","E","S">> :> <<"S","e","t"," ","m","e","d","i","c","a","l"," ","s","e","r","v","i","c","e"," ","f","e","e","s">>)
    @@ (<<"U","P","D","A","T","E","_","S","T","A","T","U","S">> :> <<"U","p","d","a","t","e"," ","s","t","a","t","u","s">>)
    @@ (<<"V","I","E","W","_","P","A","T","I","E","N","T","S">> :> <<"V","i","e","w"," ","p","a","t","i","e","n","t","s">>)
    @@ (<<"P","U","T","_","P","A","T","I","E","N","T","_","P","A","Y","M","E","N","T">> :> <<"P","u","t"," ","p","a","t","i","e","n","t"," ","p","a","y","m","e","n","t">>)
    @@ (<<"D","E","L","E","T","E","_","P","A","T","I","E","N","T","_","P","A","Y","M","E","N","T">> :> <<"D","e","l","e","t","e"," ","p","a","t","i","e","n","t"," ","p","a","y","m","e","n","t">>)
    @@ (<<"E","X","P","O","R","T">> :> <<"E","x","p","o","r","t">>)
    @@ (<<"I","M","P","O","R","T">> :> <<"I","m","p","o","r","t">>)
    @@ (<<"A","R","C","H","I","V","E">> :> <<"A","r","c","h","i","v","e">>)
    @@ (<<"R","E","S","T","O","R","E">> :> <<"R","e","s","t","o","r","e">>)
    @@ (<<"S","H","A","R","E">> :> <<"S","h","a","r","e">>)
    @@ (<<"D","O","W","N","L","O","A","D">> :> <<"D","o","w","n","l","o","a","d">>)
    @@ (<<"U","P","L","O","A","D">> :> <<"U","p","l","o","a","d">>)
    @@ (<<"L","O","G","I","N">> :> <<"L","o","g","i","n">>)
    @@ (<<"L","O","G","O","U","T">> :> <<"L","o","g","o","u","t">>)
    @@ (<<"C","O","N","F","I","G","U","R","E">> :> <<"C","o","n","f","i","g","u","r","e">>)
    @@ (<<"A","U","D","I","T">> :> <<"A","u","d","i","t">>)

frAction ==
  (<<"C","R","E","A","T","E">> :> <<"C","r","é","e","r">>)
    @@ (<<"R","E","A","D">> :> <<"L","i","r","e">>)
    @@ (<<"U","P","D","A","T","E">> :> <<"M","e","t","t","r","e"," ","à"," ","j","o","u","r">>)
    @@ (<<"D","E","L","E","T","E">> :> <<"S","u","p","p","r","i","m","e","r">>)
    @@ (<<"P","U","T">> :> <<"M","e","t","t","r","e">>)
    @@ (<<"L","I","S","T">> :> <<"L","i","s","t","e","r">>)
    @@ (<<"M","A","N","A","G","E">> :> <<"G","é","r","e","r">>)
    @@ (<<"V","I","E","W">> :> <<"V","o","i","r">>)
    @@ (<<"S","E","A","R","C","H">> :> <<"R","e","c","h","e","r","c","h","e","r">>)
    @@ (<<"G","R","A","N","T">> :> <<"A","c","c","o","r","d","e","r">>)
    @@ (<<"R","E","V","O","K","E">> :> <<"R","é","v","o","q","u","e","r">>)
    @@ (<<"P","R","E","S","C","R","I","B","E">> :> <<"P","r","e","s","c","r","i","r","e">>)
    @@ (<<"D","I","A","G","N","O","S","E">> :> <<"D","i","a","g","n","o","s","t","i","q","u","e","r">>)
    @@ (<<"S","C","H","E","D","U","L","E">> :> <<"P","l","a","n","i","f","i","e","r">>)
    @@ (<<"C","A","N","C","E","L">> :> <<"A","n","n","u","l","e","r">>)
    @@ (<<"A","P","P","R","O","V","E">> :> <<"A","p","p","r","o","u","v","e","r">>)
    @@ (<<"R","E","J","E","C","T">> :> <<"R","e","j","e","t","e","r">>)
    @@ (<<"S","I","G","N">> :> <<"S","i","g","n","e","r">>)
    @@ (<<"V","E","R","I","F","Y">> :> <<"V","é","r","i","f","i","e","r">>)
    @@ (<<"R","E","C","O","V","E","R">> :> <<"R","é","c","u","p","é","r","e","r">>)
    @@ (<<"D","I","S","A","B","L","E">> :> <<"D","é","s","a","c","t","i","v","e","r">>)
    @@ (<<"S","E","T","_","M","E","D","I","C","A","L","_","S","E","R","V","I","C","E","_","S","T","A","T","U","S">> :> <<"D","é","f","i","n","i","r"," ","l","e"," ","s","t","a","t","u","t"," ","d","u"," ","s","e","r","v","i","c","e"," ","m","é","d","i","c","a","l">>)
    @@ (<<"S","E","T","_","M","E","D","I","C","A","L","_","S","E","R","V","I","C","E","_","F","E","E","S">> :> <<"D","é","f","i","n","i","r"," ","l","e","s"," ","f","r","a","i","s"," ","d","u"," ","s","e","r","v","i","c","e"," ","m","é","d","i","c","a","l">>)
    @@ (<<"U","P","D","A","T","E","_","S","T","A","T","U","S">> :> <<"M","e","t","t","r","e"," ","à"," ","j","o","u","r"," ","l","e"," ","s","t","a","t","u","t">>)
    @@ (<<"V","I","E","W","_","P","A","T","I","E","N","T","S">> :> <<"V","o","i","r"," ","l","e","s"," ","p","a","t","i","e","n","t","s">>)
    @@ (<<"P","U","T","_","P","A","T","I","E","N","T","_","P","A","Y","M","E","N","T">> :> <<"E","n","r","e","g","i","s","t","r","e","r"," ","l","e"," ","p","a","i","e","m","e","n","t"," ","p","a","t","i","e","n","t">>)
    @@ (<<"D","E","L","E","T","E","_","P","A","T","I","E","N","T","_","P","A","Y","M","E","N","T">> :> <<"S","u","p","p","r","i","m","e","r"," ","l","e"," ","p","a","i","e","m","e","n","t"," ","p","a","t","i","e","n","t">>)
    @@ (<<"E","X","P","O","R","T">> :> <<"E","x","p","o","r","t","e","r">>)
    @@ (<<"I","M","P","O","R","T">> :> <<"I","m","p","o","r","t","e","r">>)
    @@ (<<"A","R","C","H","I","V","E">> :> <<"A","r","c","h","i","v","e","r">>)
    @@ (<<"R","E","S","T","O","R","E">> :> <<"R","e","s","t","a","u","r","e","r">>)
    @@ (<<"S","H","A","R","E">> :> <<"P","a","r","t","a","g","e","r">>)
    @@ (<<"D","O","W","N","L","O","A","D">> :> <<"T","é","l","é","c","h","a","r","g","e","r">>)
    @@ (<<"U","P","L","O","A","D">> :> <<"T","é","l","é","v","e","r","s","e","r">>)
    @@ (<<"L","O","G","I","N">> :> <<"C","o","n","n","e","x","i","o","n">>)
    @@ (<<"L","O","G","O","U","T">> :> <<"D","é","c","o","n","n","e","x","i","o","n">>)
    @@ (<<"C","O","N","F","I","G","U","R","E">> :> <<"C","o","n","f","i","g","u","r","e","r">>)
    @@ (<<"A","U","D","I","T">> :> <<"A","u","d","i","t","e","r">>)

frResourceOverrides ==
  (<<"A","C","C","O","U","N","T">> :> <<"C","o","m","p","t","e">>)
    @@ (<<"A","C","C","O","U","N","T","_","O","W","N","E","R","S","H","I","P">> :> <<"P","r","o","p","r","i","é","t","é"," ","d","u"," ","c","o","m","p","t","e">>)
    @@ (<<"A","C","C","O","U","N","T","_","P","R","E","F","E","R","E","N","C","E","S">> :> <<"P","r","é","f","é","r","e","n","c","e","s"," ","d","u"," ","c","o","m","p","t","e">>)
    @@ (<<"U","S","E","R">> :> <<"U","t","i","l","i","s","a","t","e","u","r">>)
    @@ (<<"C","O","N","T","A","C","T">> :> <<"C","o","n","t","a","c","t">>)
    @@ (<<"P","A","T","I","E","N","T">> :> <<"P","a","t","i","e","n","t">>)
    @@ (<<"P","A","T","I","E","N","T","_","M","E","D","I","C","A","L","_","N","O","T","E","S">> :> <<"N","o","t","e","s"," ","m","é","d","i","c","a","l","e","s"," ","d","u"," ","p","a","t","i","e","n","t">>)
    @@ (<<"P","A","T","I","E","N","T","_","M","E","D","I","C","A","L","_","P","R","O","P","E","R","T","I","E","S">> :> <<"P","r","o","p","r","i","é","t","é","s"," ","m","é","d","i","c","a","l","e","s"," ","d","u"," ","p","a","t","i","e","n","t">>)
    @@ (<<"P","A","T","I","E","N","T","_","P","U","B","L","I","C","_","P","R","O","P","E","R","T","I","E","S">> :> <<"P","r","o","p","r","i","é","t","é","s"," ","p","u","b","l","i","q","u","e","s"," ","d","u"," ","p","a","t","i","e","n","t">>)
    @@ (<<"P","A","T","I","E","N","T","_","P","A","Y","M","E","N","T">> :> <<"P","a","i","e","m","e","n","t"," ","d","u"," ","p","a","t","i","e","n","t">>)
    @@ (<<"M","E","D","I","C","A","L","_","S","E","R","V","I","C","E">> :> <<"S","e","r","v","i","c","e"," ","m","é","d","i","c","a","l">>)
    @@ (<<"M","E","D","I","C","A","L","_","S","E","R","V","I","C","E","_","N","O","T","E">> :> <<"N","o","t","e"," ","d","u"," ","s","e","r","v","i","c","e"," ","m","é","d","i","c","a","l">>)
    @@ (<<"M","E","D","I","C","A","L","_","S","E","R","V","I","C","E","_","S","C","H","E","D","U","L","E">> :> <<"P","l","a","n","i","f","i","c","a","t","i","o","n"," ","d","u"," ","s","e","r","v","i","c","e"," ","m","é","d","i","c","a","l">>)
    @@ (<<"M","E","D","I","C","A","L","_","S","E","R","V","I","C","E","_","F","E","E","S">> :> <<"F","r","a","i","s"," ","d","u"," ","s","e","r","v","i","c","e"," ","m","é","d","i","c","a","l">>)
    @@ (<<"M","E","D","I","C","A","L","_","S","E","R","V","I","C","E","_","S","T","A","T","U","S">> :> <<"S","t","a","t","u","t"," ","d","u"," ","s","e","r","v","i","c","e"," ","m","é","d","i","c","a","l">>)
    @@ (<<"M","E","D","I","C","A","L","_","N","O","T","E">> :> <<"N","o","t","e"," ","m","é","d","i","c","a","l","e">>)
    @@ (<<"M","E","D","I","C","A","L","_","R","E","C","O","R","D">> :> <<"D","o","s","s","i","e","r"," ","m","é","d","i","c","a","l">>)
    @@ (<<"M","E","D","I","C","A","L","_","H","I","S","T","O","R","Y">> :> <<"A","n","t","é","c","é","d","e","n","t","s"," ","m","é","d","i","c","a","u","x">>)
    @@ (<<"M","E","D","I","C","A","L","_","H","I","S","T","O","R","Y","_","M","O","D","E","L">> :> <<"M","o","d","è","l","e"," ","d","'","a","n","t","é","c","é","d","e","n","t","s"," ","m","é","d","i","c","a","u","x">>)
    @@ (<<"P","R","E","S","C","R","I","P","T","I","O","N">> :> <<"O","r","d","o","n","n","a","n","c","e">>)
    @@ (<<"P","R","E","S","C","R","I","P","T","I","O","N","_","M","O","D","E","L">> :> <<"M","o","d","è","l","e"," ","d","'","o","r","d","o","n","n","a","n","c","e">>)
    @@ (<<"D","I","A","G","N","O","S","I","S">> :> <<"D","i","a","g","n","o","s","t","i","c">>)
    @@ (<<"O","B","S","E","R","V","A","T","I","O","N">> :> <<"O","b","s","e","r","v","a","t","i","o","n">>)
    @@ (<<"M","E","D","I","C","A","T","I","O","N">> :> <<"M","é","d","i","c","a","t","i","o","n">>)
    @@ (<<"A","L","L","E","R","G","Y">> :> <<"A","l","l","e","r","g","i","e">>)
    @@ (<<"I","M","M","U","N","I","Z","A","T","I","O","N">> :> <<"V","a","c","c","i","n","a","t","i","o","n">>)
    @@ (<<"P","R","O","C","E","D","U","R","E">> :> <<"P","r","o","c","é","d","u","r","e">>)
    @@ (<<"C","L","I","N","I","C","A","L","_","N","O","T","E">> :> <<"N","o","t","e"," ","c","l","i","n","i","q","u","e">>)
    @@ (<<"V","I","T","A","L","_","S","I","G","N","S">> :> <<"S","i","g","n","e","s"," ","v","i","t","a","u","x">>)
    @@ (<<"M","E","A","S","U","R","E","_","M","O","D","E","L">> :> <<"M","o","d","è","l","e"," ","d","e"," ","m","e","s","u","r","e">>)
    @@ (<<"C","A","L","C","U","L","A","T","E","D","_","M","E","A","S","U","R","E","_","M","O","D","E","L">> :> <<"M","o","d","è","l","e"," ","d","e"," ","m","e","s","u","r","e"," ","c","a","l","c","u","l","é","e">>)
    @@ (<<"U","P","L","O","A","D","E","D","_","D","O","C","U","M","E","N","T">> :> <<"D","o","c","u","m","e","n","t"," ","t","é","l","é","v","e","r","s","é">>)
    @@ (<<"D","O","C","U","M","E","N","T","_","L","A","Y","O","U","T">> :> <<"M","i","s","e"," ","e","n"," ","p","a","g","e"," ","d","u"," ","d","o","c","u","m","e","n","t">>)
    @@ (<<"G","E","N","E","R","A","T","E","D","_","D","O","C","U","M","E","N","T">> :> <<"D","o","c","u","m","e","n","t"," ","g","é","n","é","r","é">>)
    @@ (<<"D","O","C","U","M","E","N","T","_","M","O","D","E","L">> :> <<"M","o","d","è","l","e"," ","d","e"," ","d","o","c","u","m","e","n","t">>)
    @@ (<<"S","N","I","P","P","E","T">> :> <<"E","x","t","r","a","i","t">>)
    @@ (<<"L","O","C","A","T","I","O","N">> :> <<"L","i","e","u">>)
    @@ (<<"T","A","S","K","_","T","Y","P","E">> :> <<"T","y","p","e"," ","d","e"," ","t","â","c","h","e">>)
    @@ (<<"L","A","B","_","R","E","S","U","L","T">> :> <<"R","é","s","u","l","t","a","t"," ","d","e"," ","l","a","b","o","r","a","t","o","i","r","e">>)
    @@ (<<"I","M","A","G","I","N","G">> :> <<"I","m","a","g","e","r","i","e">>)
    @@ (<<"M","E","M","B","E","R","S","H","I","P">> :> <<"A","d","h","é","s","i","o","n">>)
    @@ (<<"S","E","T","T","I","N","G","S">> :> <<"P","a","r","a","m","è","t","r","e","s">>)
    @@ (<<"N","O","T","I","F","I","C","A","T","I","O","N">> :> <<"N","o","t","i","f","i","c","a","t","i","o","n">>)
    @@ (<<"R","E","P","O","R","T">> :> <<"R","a","p","p","o","r","t">>)
    @@ (<<"A","U","D","I","T","_","L","O","G">> :> <<"J","o","u","r","n","a","l"," ","d","'","a","u","d","i","t">>)
    @@ (<<"S","Y","S","T","E","M">> :> <<"S","y","s","t","è","m","e">>)
    @@ (<<"P","U","B","L","I","C","_","R","E","S","O","U","R","C","E">> :> <<"R","e","s","s","o","u","r","c","e"," ","p","u","b","l","i","q","u","e">>)
    @@ (<<"M","E","D","I","C","A","L","_","R","E","S","O","U","R","C","E">> :> <<"R","e","s","s","o","u","r","c","e"," ","m","é","d","i","c","a","l","e">>)

\* String.prototype.toUpperCase, character by character
toUpperCase(s) ==
  [i \in 1..Len(s) |->
     IF \E k \in DOMAIN LOWER_CASE : LOWER_CASE[k] = s[i]
     THEN UPPER_CASE[CHOOSE k \in DOMAIN LOWER_CASE : LOWER_CASE[k] = s[i]]
     ELSE s[i]]

\* Array.prototype.join
RECURSIVE join(_, _)
join(parts, separator) ==
  IF Len(parts) = 0 THEN << >>
  ELSE IF Len(parts) = 1 THEN parts[1]
  ELSE parts[1] \o separator \o join(Tail(parts), separator)

\* w.charAt(0).toUpperCase() + w.slice(1)
capitalise(w) == IF Len(w) = 0 THEN << >> ELSE toUpperCase(<<w[1]>>) \o Tail(w)

\* key.toLowerCase().split('_').map(capitalise).join(' ')
humanizeKey(key) ==
  LET words == split(toLowerCase(key), "_") IN
    join([i \in DOMAIN words |-> capitalise(words[i])], <<" ">>)

\* the French table for 'fr-FR', the English table for any other locale; an
\* action without an entry gets its humanized key
getActionLabel(action, locale) ==
  IF locale = "fr-FR"
  THEN Return(JSString(IF action \in DOMAIN frAction THEN frAction[action]
                       ELSE humanizeKey(action)))
  ELSE Return(JSString(IF action \in DOMAIN enAction THEN enAction[action]
                       ELSE humanizeKey(action)))

\* the French override for 'fr-FR' if there is one, else the humanized key
getResourceLabel(resource, locale) ==
  IF locale = "fr-FR"
  THEN Return(JSString(IF resource \in DOMAIN frResourceOverrides
                       THEN frResourceOverrides[resource]
                       ELSE humanizeKey(resource)))
  ELSE Return(JSString(humanizeKey(resource)))

\* operation is an Operation or a string to parse; opts is undefined or an
\* object that may hold an order and a separator
getOperationLabel(operation, locale, opts) ==
  LET order == IF Get(opts, "order").t = "undefined" THEN "action-resource"
               ELSE Get(opts, "order").s
      sep == IF Get(opts, "separator").t = "undefined" THEN <<" ">>
             ELSE Get(opts, "separator").s
      op == IF operation.t = "string" THEN fromString(operation.s).value ELSE operation
  IN IF ~Truthy(op) THEN Return(JSString(<< >>))
     ELSE LET a == getActionLabel(op.action, locale).value.s
              r == getResourceLabel(op.resource, locale).value.s
          IN Return(JSString(IF order = "resource-action" THEN r \o sep \o a
                             ELSE a \o sep \o r))

(* ------------------------------ audit/utils.ts ------------------------- *)

systemFields ==
  <<"updatedAt", "lastModified", "modifiedAt", "lastUpdated", "version", "etag", "ttl">>

isSystemField(key) == key \in Range(systemFields)

\* key in obj: an own key or a member inherited from Object.prototype
In(key, obj) == key \in DOMAIN obj.map \/ key \in OBJECT_PROTOTYPE_KEYS

\* obj1 === obj2 for values that are not objects: same type and same value (an
\* inherited member is the same function on both sides).  Two objects or
\* arrays taken from two records are different references; were they the same
\* one, the comparison key by key below gives true as well.
StrictEquals(obj1, obj2) ==
  /\ obj1.t = obj2.t
  /\ obj1.t \notin {"object", "array"}
  /\ obj1 = obj2

RECURSIVE deepEqual(_, _)
deepEqual(obj1, obj2) ==
  IF StrictEquals(obj1, obj2) THEN TRUE
  ELSE IF obj1.t \notin {"object", "array"} \/ obj2.t \notin {"object", "array"} THEN FALSE
  ELSE IF (obj1.t = "array") # (obj2.t = "array") THEN FALSE
  ELSE IF obj1.t = "array"
       THEN /\ Len(obj1.items) = Len(obj2.items)
            /\ \A i \in DOMAIN obj1.items : deepEqual(obj1.items[i], obj2.items[i])
  ELSE /\ Len(obj1.keys) = Len(obj2.keys)
       /\ \A i \in DOMAIN obj1.keys :
            /\ obj1.keys[i] \in Range(obj2.keys)
            /\ deepEqual(obj1.map[obj1.keys[i]], obj2.map[obj1.keys[i]])

\* bucket[key] = value on a bucket that has no such key yet
Put(bucket, key, value) == JSObject(Append(bucket.keys, key), bucket.map @@ (key :> value))

\* the loop of calculateDifferences over the keys still to visit
RECURSIVE classifyKeys(_, _, _, _)
classifyKeys(keys, oldData, newData, buckets) ==
  IF Len(keys) = 0 THEN buckets
  ELSE LET key == Head(keys)
           oldValue == Get(oldData, key)
           newValue == Get(newData, key)
       IN classifyKeys(Tail(keys), oldData, newData,
            IF isSystemField(key) THEN buckets
            ELSE IF ~In(key, oldData) /\ In(key, newData)
                 THEN [buckets EXCEPT !.added = Put(@, key, newValue)]
            ELSE IF In(key, oldData) /\ ~In(key, newData)
                 THEN [buckets EXCEPT !.removed = Put(@, key, oldValue)]
            ELSE IF In(key, oldData) /\ In(key, newData) /\ ~deepEqual(oldValue, newValue)
                 THEN [buckets EXCEPT !.modified =
                         Put(@, key, JSObject(<<"from", "to">>,
                                       [from |-> oldValue, to |-> newValue]))]
            ELSE buckets)

\* the keys of oldData, then the keys of newData not seen yet (a Set keeps
\* insertion order); the result holds the buckets that are not empty
calculateDifferences(oldData, newData) ==
  LET allKeys == oldData.keys \o SelectSeq(newData.keys, LAMBDA k : k \notin Range(oldData.keys))
      empty == JSObject(<< >>, << >>)
      buckets == classifyKeys(allKeys, oldData, newData,
                              [added |-> empty, modified |-> empty, removed |-> empty])
      names == SelectSeq(<<"added", "modified", "removed">>,
                         LAMBDA name : Len(buckets[name].keys) > 0)
  IN JSObject(names, [name \in Range(names) |-> buckets[name]])

calculateChangedData(newData, oldData) ==
  IF ~Truthy(oldData) /\ Truthy(newData)
  THEN Return(JSObject(<<"full">>, [k \in {"full"} |-> newData]))
  ELSE IF ~Truthy(newData) /\ Truthy(oldData)
       THEN Return(JSObject(<<"full">>, [k \in {"full"} |-> oldData]))
  ELSE IF Truthy(oldData) /\ Truthy(newData)
       THEN LET differences == calculateDifferences(oldData, newData) IN
              Return(JSObject(Append(differences.keys, "full"),
                              differences.map @@ ("full" :> newData)))
  ELSE Return(JSObject(<<"full">>, [k \in {"full"} |-> JSObject(<< >>, << >>)]))

(* ------------------------------ inputs --------------------------------- *)

\* statuses a caller may pass: every registered status value, a value that is
\* no status anywhere, and a name every object inherits
StatusInputs ==
  UNION {Range(ObjectKeys(METADATA_REGISTRY.map[f])) : f \in Range(StatusFeature)}
    \cup {"archived", "constructor"}

FeatureInputs == Range(StatusFeature) \cup {"appointment", "toString"}

LocaleInputs == Locales \cup {"en-US", "valueOf"}

FormatInputs == Formats \cup {"medium", "constructor"}

\* the short labels of every registered status, in both locales
ShortLabels ==
  UNION {{METADATA_REGISTRY.map[f].map[st].map["label"].map["short"].map[l].s :
            st \in Range(ObjectKeys(METADATA_REGISTRY.map[f])), l \in Locales} :
         f \in Range(StatusFeature)}

\* the substrings of text that are at most maxLen characters long
Substrings(text, maxLen) ==
  {SubSeq(text, p[1], p[2]) :
     p \in {q \in (1..Len(text)) \X (0..Len(text)) : q[2] - q[1] + 1 \in 0..maxLen}}

\* search terms: the substrings of the short labels up to MaxTermLen characters
\* (the empty term among them) and words of the long labels and descriptions
\* in mixed case
SearchTermInputs ==
  UNION {Substrings(t, MaxTermLen) : t \in ShortLabels}
    \cup {<<"w","a","i","t","i","n","g">>,
          <<"W","A","I","T","I","N","G">>,
          <<"W","a","i","t","i","n","g"," ","R","o","o","m">>,
          <<"a","t","t","e","n","t","e">>,
          <<"p","r","o","g","r","e","s","s">>,
          <<"P","r","o","g","r","e","s","s">>,
          <<"s","e","r","v","i","c","e">>,
          <<"m","e","d","i","c","a","l">>,
          <<"e","x","p","i","r">>,
          <<"z","z","z">>,
          <<"é">>}

\* predicates a caller may pass to filterStatusesByFeature: every way of
\* answering true or false entry by entry
PredicateInputs(reg, feature) ==
  [CallbackEntries(reg, feature) -> {Return(JSBoolean(TRUE)), Return(JSBoolean(FALSE))}]

\* transforms a caller may pass to mapStatusesByFeature: meta => meta.color and
\* meta => meta.icon
TransformInputs(reg, feature) ==
  {[entry \in CallbackEntries(reg, feature) |-> Return(Get(entry[2], field))] :
     field \in {"color", "icon"}}

\* what a caller pushes onto an array it was handed
PushInputs == {"completed"}

\* the key whose metadata a caller copies over another key of a mapping it was
\* handed
CopiedKeyInputs == {"current"}

\* s with one character removed, or with one of a few characters inserted
Edits(s) ==
  {SubSeq(s, 1, i - 1) \o SubSeq(s, i + 1, Len(s)) : i \in DOMAIN s}
    \cup {SubSeq(s, 1, i) \o <<c>> \o SubSeq(s, i + 1, Len(s)) :
            i \in 0..Len(s), c \in {":", "X", " "}}

\* strings a caller may pass to Operation.fromString: every RESOURCE:ACTION
\* string, the strings of the tests, and the edits of 'USER:LIST'
OperationStringInputs ==
  {toString(Operation(resource, action)).value.s :
     resource \in Range(Resource), action \in Range(Action)}
    \cup Edits(<<"U","S","E","R",":","L","I","S","T">>)
    \cup {<< >>,
          <<":">>,
          <<"I","N","V","A","L","I","D">>,
          <<"P","A","T","I","E","N","T">>,
          <<"P","A","T","I","E","N","T",":","R","E","A","D",":","E","X","T","R","A">>,
          <<"I","N","V","A","L","I","D","_","R","E","S","O","U","R","C","E",":","R","E","A","D">>,
          <<"P","A","T","I","E","N","T",":","I","N","V","A","L","I","D","_","A","C","T","I","O","N">>,
          <<"R","E","A","D",":","P","A","T","I","E","N","T">>,
          <<"p","a","t","i","e","n","t",":","r","e","a","d">>,
          <<"A","C","C","O","U","N","T",":","R","E","A","D">>}

\* environments a caller may pass to buildSSMPath: null, the empty string,
\* plain names, names with a '/', and a name that is itself a key
EnvInputs ==
  {JSNull,
   JSString(<< >>),
   JSString(<<"p","r","o","d">>),
   JSString(<<"d","e","v">>),
   JSString(<<"m","y","a","p","p","/","s","t","a","g","i","n","g">>),
   JSString(<<"p","r","o","d","/">>),
   JSString(<<"/">>),
   JSString(<<"d","b","-","u","s","e","r">>)}

\* paths a caller may pass to extractKeyFromPath: every path buildSSMPath
\* builds, the paths of the tests, and paths that end in no key
PathInputs ==
  {buildSSMPath(env, key).value.s : env \in EnvInputs, key \in Range(SSM_PARAM_KEY)}
    \cup Edits(<<"/","d","e","v","/","d","b","-","u","s","e","r">>)
    \cup {<< >>,
          <<"/">>,
          <<"d","b","-","u","s","e","r">>,
          <<"/","p","r","o","d","/","i","n","v","a","l","i","d","-","k","e","y">>,
          <<"/","m","y","a","p","p","/","s","t","a","g","i","n","g","/","d","b","-","p","a","s","s","w","o","r","d">>,
          <<"/","p","r","o","d","/","d","b","-","u","s","e","r","/">>,
          <<"/","p","r","o","d","/","D","B","-","U","S","E","R">>,
          <<"/","d","b","-","u","s","e","r","/","p","r","o","d">>,
          <<"/","p","r","o","d","/">>,
          <<"i","n","v","a","l","i","d","-","p","a","t","h">>,
          <<"/","m","y","a","p","p","/","p","r","o","d","/","d","b","-","u","s","e","r">>}

\* locales a caller may pass to the label functions: the two of the Locale
\* type and the codes the tests pass
LabelLocaleInputs == {"us-EN", "fr-FR", "en", "en-US", "fr"}

\* operations a caller may pass to getOperationLabel, as objects and as strings
OperationInputs ==
  {Operation(<<"P","A","T","I","E","N","T">>, <<"R","E","A","D">>),
   Operation(<<"P","A","T","I","E","N","T">>, <<"C","R","E","A","T","E">>),
   Operation(<<"A","U","D","I","T","_","L","O","G">>, <<"E","X","P","O","R","T">>),
   JSString(<<"P","A","T","I","E","N","T",":","R","E","A","D">>),
   JSString(<<"U","S","E","R",":","L","O","G","I","N">>),
   JSString(<<"I","N","V","A","L","I","D">>)}

OptsInputs ==
  {Undefined,
   JSObject(<<"order">>, [k \in {"order"} |-> JSString("resource-action")]),
   JSObject(<<"separator">>, [k \in {"separator"} |-> JSString(<<" ", "-", " ">>)])}

\* values a field of an audited record may hold: a string, an array, and two
\* objects that differ only in the order of their keys
FieldValueInputs ==
  {JSString("a"),
   JSArray(<<JSString("a")>>),
   JSObject(<<"x", "y">>, [x |-> JSString("a"), y |-> JSNull]),
   JSObject(<<"y", "x">>, [x |-> JSString("a"), y |-> JSNull])}

\* the record with the fields that are given a value, in the order name,
\* version, constructor
RecordOf(fields) ==
  LET keys == SelectSeq(<<"name", "version", "constructor">>, LAMBDA k : k \in DOMAIN fields)
  IN JSObject(keys, fields)

\* records a caller may pass to calculateChangedData: a field 'name', the
\* system field 'version', and a field named like an inherited member
RecordInputs ==
  {RecordOf(name @@ version @@ constructor) :
     name \in {<< >>} \cup [{"name"} -> FieldValueInputs],
     version \in {<< >>} \cup [{"version"} -> {JSString("a"), JSArray(<<JSString("a")>>)}],
     constructor \in {<< >>} \cup [{"constructor"} -> {JSString("a")}]}

\* newData and oldData are optional
ChangedDataInputs == RecordInputs \cup {Undefined, JSNull}

(* --------------------------- state machine ----------------------------- *)

Init ==
  /\ transitionsTable = MEDICAL_SERVICE_STATUS_TRANSITIONS
  /\ metadataRegistry = METADATA_REGISTRY
  /\ call = [op |-> "none", args |-> << >>]
  /\ result = Return(Undefined)
  /\ serviceStatus = "pending"

Tables == <<transitionsTable, metadataRegistry>>

\* no call is pending: the caller is between two calls
Idle == call.op = "none"

CallIsValidTransition ==
  \E from \in StatusInputs, to \in StatusInputs :
    /\ Idle
    /\ call' = [op |-> "isValidTransition", args |-> <<from, to>>]
    /\ result' = isValidTransition(transitionsTable, from, to)
    /\ UNCHANGED <<Tables, serviceStatus>>

\* mutant: the empty default is stored in the table, TABLE[status] ??= []
CallGetAllowedTransitions_storesDefault ==
  \E status \in StatusInputs :
    /\ Idle
    /\ call' = [op |-> "getAllowedTransitions", args |-> <<status>>]
    /\ result' = getAllowedTransitions(transitionsTable, status)
    /\ transitionsTable' =
         IF Get(transitionsTable, status).t = "undefined"
         THEN JSObject(Append(transitionsTable.keys, status),
                       transitionsTable.map @@ (status :> JSArray(<< >>)))
         ELSE transitionsTable
    /\ UNCHANGED <<metadataRegistry, serviceStatus>>

CallGetAllowedTransitions ==
  \E status \in StatusInputs :
    /\ Idle
    /\ call' = [op |-> "getAllowedTransitions", args |-> <<status>>]
    /\ result' = getAllowedTransitions(transitionsTable, status)
    /\ UNCHANGED <<Tables, serviceStatus>>

CallGetStatusMetadataForFeature ==
  \E feature \in FeatureInputs, status \in StatusInputs :
    /\ Idle
    /\ call' = [op |-> "getStatusMetadataForFeature", args |-> <<feature, status>>]
    /\ result' = getStatusMetadataForFeature(metadataRegistry, feature, status)
    /\ UNCHANGED <<Tables, serviceStatus>>

CallGetStatusLabelForFeature ==
  \E feature \in FeatureInputs, status \in StatusInputs,
     locale \in LocaleInputs, format \in FormatInputs :
    /\ Idle
    /\ call' = [op |-> "getStatusLabelForFeature", args |-> <<feature, status, locale, format>>]
    /\ result' = getStatusLabelForFeature(metadataRegistry, feature, status, locale, format)
    /\ UNCHANGED <<Tables, serviceStatus>>

CallGetStatusDescriptionForFeature ==
  \E feature \in FeatureInputs, status \in StatusInputs, locale \in LocaleInputs :
    /\ Idle
    /\ call' = [op |-> "getStatusDescriptionForFeature", args |-> <<feature, status, locale>>]
    /\ result' = getStatusDescriptionForFeature(metadataRegistry, feature, status, locale)
    /\ UNCHANGED <<Tables, serviceStatus>>

CallGetAllStatusMetadataForFeature ==
  \E feature \in FeatureInputs :
    /\ Idle
    /\ call' = [op |-> "getAllStatusMetadataForFeature", args |-> <<feature>>]
    /\ result' = getAllStatusMetadataForFeature(metadataRegistry, feature)
    /\ UNCHANGED <<Tables, serviceStatus>>

CallGetAllStatusesForFeature ==
  \E feature \in FeatureInputs :
    /\ Idle
    /\ call' = [op |-> "getAllStatusesForFeature", args |-> <<feature>>]
    /\ result' = getAllStatusesForFeature(metadataRegistry, feature)
    /\ UNCHANGED <<Tables, serviceStatus>>

\* the caller has consumed the result and is free to make the next call
ReturnToCaller ==
  /\ ~Idle
  /\ call' = [op |-> "none", args |-> << >>]
  /\ result' = Return(Undefined)
  /\ UNCHANGED <<Tables, serviceStatus>>

CallSearchStatusesByFeature ==
  \E feature \in FeatureInputs, searchTerm \in SearchTermInputs, locale \in LocaleInputs :
    /\ Idle
    /\ call' = [op |-> "searchStatusesByFeature", args |-> <<feature, searchTerm, locale>>]
    /\ result' = searchStatusesByFeature(metadataRegistry, feature, searchTerm, locale)
    /\ UNCHANGED <<Tables, serviceStatus>>

CallGroupStatusesByColorForFeature ==
  \E feature \in FeatureInputs :
    /\ Idle
    /\ call' = [op |-> "groupStatusesByColorForFeature", args |-> <<feature>>]
    /\ result' = groupStatusesByColorForFeature(metadataRegistry, feature)
    /\ UNCHANGED <<Tables, serviceStatus>>

CallGroupStatusesByIconForFeature ==
  \E feature \in FeatureInputs :
    /\ Idle
    /\ call' = [op |-> "groupStatusesByIconForFeature", args |-> <<feature>>]
    /\ result' = groupStatusesByIconForFeature(metadataRegistry, feature)
    /\ UNCHANGED <<Tables, serviceStatus>>

CallGetAllMedicalServiceStatuses ==
  /\ Idle
  /\ call' = [op |-> "getAllMedicalServiceStatuses", args |-> << >>]
  /\ result' = getAllMedicalServiceStatuses
  /\ UNCHANGED <<Tables, serviceStatus>>

CallFilterStatusesByFeature ==
  \E feature \in FeatureInputs :
    \E predicate \in PredicateInputs(metadataRegistry, feature) :
      /\ Idle
      /\ call' = [op |-> "filterStatusesByFeature", args |-> <<feature, predicate>>]
      /\ result' = filterStatusesByFeature(metadataRegistry, feature, predicate)
      /\ UNCHANGED <<Tables, serviceStatus>>

CallMapStatusesByFeature ==
  \E feature \in FeatureInputs :
    \E transform \in TransformInputs(metadataRegistry, feature) :
      /\ Idle
      /\ call' = [op |-> "mapStatusesByFeature", args |-> <<feature, transform>>]
      /\ result' = mapStatusesByFeature(metadataRegistry, feature, transform)
      /\ UNCHANGED <<Tables, serviceStatus>>

\* the caller holding the array getAllowedTransitions returned pushes a status
\* onto it.  For a status the table has an entry for, `TABLE[status] ?? []` is
\* the table's own array, so the push is a push onto the table's entry; for
\* any other status the array is the fresh `[]`.
CallerPushesOntoAllowedTransitions ==
  \E pushed \in PushInputs :
    /\ call.op = "getAllowedTransitions"
    /\ result.kind = "return"
    /\ result.value.t = "array"
    /\ pushed \notin Range(result.value.items)
    /\ result' = Return(JSArray(Append(result.value.items, pushed)))
    /\ transitionsTable' =
         IF Get(transitionsTable, call.args[1]).t = "array"
         THEN JSObject(transitionsTable.keys,
                [transitionsTable.map EXCEPT
                   ![call.args[1]] = JSArray(Append(@.items, pushed))])
         ELSE transitionsTable
    /\ UNCHANGED <<metadataRegistry, call, serviceStatus>>

\* the caller holding the mapping getAllStatusMetadataForFeature returned
\* assigns mapping[key] = mapping[copied].  The mapping is the registry's own
\* object for the feature, so the assignment is one to the registry.
CallerAssignsIntoAllStatusMetadata ==
  \E copied \in CopiedKeyInputs :
    /\ call.op = "getAllStatusMetadataForFeature"
    /\ result.kind = "return"
    /\ result.value.t = "object"
    /\ copied \in DOMAIN result.value.map
    /\ \E key \in DOMAIN result.value.map :
         /\ result.value.map[key] # result.value.map[copied]
         /\ LET assigned == JSObject(result.value.keys,
                              [result.value.map EXCEPT ![key] = result.value.map[copied]])
            IN /\ result' = Return(assigned)
               /\ metadataRegistry' =
                    JSObject(metadataRegistry.keys,
                      [metadataRegistry.map EXCEPT ![call.args[1]] = assigned])
    /\ UNCHANGED <<transitionsTable, call, serviceStatus>>

CallOperationFromString ==
  \E operationString \in OperationStringInputs :
    /\ Idle
    /\ call' = [op |-> "Operation.fromString", args |-> <<operationString>>]
    /\ result' = fromString(operationString)
    /\ UNCHANGED <<Tables, serviceStatus>>

\* new Operation(resource, action).toString()
CallOperationToString ==
  \E resource \in Range(Resource), action \in Range(Action) :
    /\ Idle
    /\ call' = [op |-> "Operation.toString", args |-> <<resource, action>>]
    /\ result' = toString(Operation(resource, action))
    /\ UNCHANGED <<Tables, serviceStatus>>

CallIsMedicalResource ==
  \E resource \in Range(Resource) :
    /\ Idle
    /\ call' = [op |-> "isMedicalResource", args |-> <<resource>>]
    /\ result' = isMedicalResource(resource)
    /\ UNCHANGED <<Tables, serviceStatus>>

CallIsPublicResource ==
  \E resource \in Range(Resource) :
    /\ Idle
    /\ call' = [op |-> "isPublicResource", args |-> <<resource>>]
    /\ result' = isPublicResource(resource)
    /\ UNCHANGED <<Tables, serviceStatus>>

CallIsMedicalResourceCategorised ==
  \E resource \in Range(ResourceCategorised) :
    /\ Idle
    /\ call' = [op |-> "isMedicalResourceCategorised", args |-> <<resource>>]
    /\ result' = isMedicalResourceCategorised(resource)
    /\ UNCHANGED <<Tables, serviceStatus>>

CallIsPublicResourceCategorised ==
  \E resource \in Range(ResourceCategorised) :
    /\ Idle
    /\ call' = [op |-> "isPublicResourceCategorised", args |-> <<resource>>]
    /\ result' = isPublicResourceCategorised(resource)
    /\ UNCHANGED <<Tables, serviceStatus>>

CallGetAllResources ==
  /\ Idle
  /\ call' = [op |-> "getAllResources", args |-> << >>]
  /\ result' = getAllResources
  /\ UNCHANGED <<Tables, serviceStatus>>

CallBuildSSMPath ==
  \E env \in EnvInputs, key \in Range(SSM_PARAM_KEY) :
    /\ Idle
    /\ call' = [op |-> "buildSSMPath", args |-> <<env, key>>]
    /\ result' = buildSSMPath(env, key)
    /\ UNCHANGED <<Tables, serviceStatus>>

CallExtractKeyFromPath ==
  \E path \in PathInputs :
    /\ Idle
    /\ call' = [op |-> "extractKeyFromPath", args |-> <<path>>]
    /\ result' = extractKeyFromPath(path)
    /\ UNCHANGED <<Tables, serviceStatus>>

CallExtractEnvFromPath ==
  \E path \in PathInputs :
    /\ Idle
    /\ call' = [op |-> "extractEnvFromPath", args |-> <<path>>]
    /\ result' = extractEnvFromPath(path)
    /\ UNCHANGED <<Tables, serviceStatus>>

CallIsEnvAgnostic ==
  \E path \in PathInputs :
    /\ Idle
    /\ call' = [op |-> "isEnvAgnostic", args |-> <<path>>]
    /\ result' = isEnvAgnostic(path)
    /\ UNCHANGED <<Tables, serviceStatus>>

CallCalculateChangedData ==
  \E newData \in ChangedDataInputs, oldData \in ChangedDataInputs :
    /\ Idle
    /\ call' = [op |-> "calculateChangedData", args |-> <<newData, oldData>>]
    /\ result' = calculateChangedData(newData, oldData)
    /\ UNCHANGED <<Tables, serviceStatus>>

CallGetActionLabel ==
  \E action \in Range(ActionLabelled), locale \in LabelLocaleInputs :
    /\ Idle
    /\ call' = [op |-> "getActionLabel", args |-> <<action, locale>>]
    /\ result' = getActionLabel(action, locale)
    /\ UNCHANGED <<Tables, serviceStatus>>

CallGetResourceLabel ==
  \E resource \in Range(ResourceCategorised), locale \in LabelLocaleInputs :
    /\ Idle
    /\ call' = [op |-> "getResourceLabel", args |-> <<resource, locale>>]
    /\ result' = getResourceLabel(resource, locale)
    /\ UNCHANGED <<Tables, serviceStatus>>

CallGetOperationLabel ==
  \E operation \in OperationInputs, locale \in LabelLocaleInputs, opts \in OptsInputs :
    /\ Idle
    /\ call' = [op |-> "getOperationLabel", args |-> <<operation, locale, opts>>]
    /\ result' = getOperationLabel(operation, locale, opts)
    /\ UNCHANGED <<Tables, serviceStatus>>

CallGetStatusMetadata ==
  \E status \in StatusInputs :
    /\ Idle
    /\ call' = [op |-> "getStatusMetadata", args |-> <<status>>]
    /\ result' = getStatusMetadata(Get(metadataRegistry, "medicalService"), status)
    /\ UNCHANGED <<Tables, serviceStatus>>

CallGetStatusIcon ==
  \E status \in StatusInputs :
    /\ Idle
    /\ call' = [op |-> "getStatusIcon", args |-> <<status>>]
    /\ result' = getStatusIcon(Get(metadataRegistry, "medicalService"), status)
    /\ UNCHANGED <<Tables, serviceStatus>>

CallGetStatusColor ==
  \E status \in StatusInputs :
    /\ Idle
    /\ call' = [op |-> "getStatusColor", args |-> <<status>>]
    /\ result' = getStatusColor(Get(metadataRegistry, "medicalService"), status)
    /\ UNCHANGED <<Tables, serviceStatus>>

CallGetStatusLabel ==
  \E status \in StatusInputs, locale \in LocaleInputs, format \in FormatInputs :
    /\ Idle
    /\ call' = [op |-> "getStatusLabel", args |-> <<status, locale, format>>]
    /\ result' = getStatusLabel(Get(metadataRegistry, "medicalService"), status, locale, format)
    /\ UNCHANGED <<Tables, serviceStatus>>

CallGetStatusDescription ==
  \E status \in StatusInputs, locale \in LocaleInputs :
    /\ Idle
    /\ call' = [op |-> "getStatusDescription", args |-> <<status, locale>>]
    /\ result' = getStatusDescription(Get(metadataRegistry, "medicalService"), status, locale)
    /\ UNCHANGED <<Tables, serviceStatus>>

CallGetStatusIconForFeature ==
  \E feature \in FeatureInputs, status \in StatusInputs :
    /\ Idle
    /\ call' = [op |-> "getStatusIconForFeature", args |-> <<feature, status>>]
    /\ result' = getStatusIconForFeature(metadataRegistry, feature, status)
    /\ UNCHANGED <<Tables, serviceStatus>>

CallGetStatusColorForFeature ==
  \E feature \in FeatureInputs, status \in StatusInputs :
    /\ Idle
    /\ call' = [op |-> "getStatusColorForFeature", args |-> <<feature, status>>]
    /\ result' = getStatusColorForFeature(metadataRegistry, feature, status)
    /\ UNCHANGED <<Tables, serviceStatus>>

CallGetExtendedStatusMetadataForFeature ==
  \E feature \in FeatureInputs, status \in StatusInputs, locale \in LocaleInputs :
    /\ Idle
    /\ call' = [op |-> "getExtendedStatusMetadataForFeature", args |-> <<feature, status, locale>>]
    /\ result' = getExtendedStatusMetadataForFeature(metadataRegistry, feature, status, locale)
    /\ UNCHANGED <<Tables, serviceStatus>>

Next ==
  \/ ReturnToCaller
  \/ CallIsValidTransition
  \/ CallGetAllowedTransitions
  \/ CallGetStatusMetadataForFeature
  \/ CallGetStatusLabelForFeature
  \/ CallGetStatusDescriptionForFeature
  \/ CallGetAllStatusMetadataForFeature
  \/ CallGetAllStatusesForFeature
  \/ CallSearchStatusesByFeature
  \/ CallGroupStatusesByColorForFeature
  \/ CallGroupStatusesByIconForFeature
  \/ CallFilterStatusesByFeature
  \/ CallMapStatusesByFeature
  \/ CallGetAllMedicalServiceStatuses
  \/ CallOperationFromString
  \/ CallOperationToString
  \/ CallIsMedicalResource
  \/ CallIsPublicResource
  \/ CallIsMedicalResourceCategorised
  \/ CallIsPublicResourceCategorised
  \/ CallBuildSSMPath
  \/ CallExtractKeyFromPath
  \/ CallExtractEnvFromPath
  \/ CallIsEnvAgnostic
  \/ CallGetAllResources
  \/ CallCalculateChangedData
  \/ CallGetActionLabel
  \/ CallGetResourceLabel
  \/ CallGetOperationLabel
  \/ CallGetStatusMetadata
  \/ CallGetStatusIcon
  \/ CallGetStatusColor
  \/ CallGetStatusLabel
  \/ CallGetStatusDescription
  \/ CallGetStatusIconForFeature
  \/ CallGetStatusColorForFeature
  \/ CallGetExtendedStatusMetadataForFeature

Spec == Init /\ [][Next]_vars

\* the calls together with what a caller can do to the values they returned
NextWithCallerWrites ==
  \/ ReturnToCaller
  \/ CallIsValidTransition
  \/ CallGetAllowedTransitions
  \/ CallGetStatusMetadataForFeature
  \/ CallGetAllStatusMetadataForFeature
  \/ CallGetAllStatusesForFeature
  \/ CallGroupStatusesByColorForFeature
  \/ CallGroupStatusesByIconForFeature
  \/ CallFilterStatusesByFeature
  \/ CallerPushesOntoAllowedTransitions
  \/ CallerAssignsIntoAllStatusMetadata

SpecWithCallerWrites == Init /\ [][NextWithCallerWrites]_vars

\* a service may be found in any of the five statuses
InitWorkflow ==
  /\ transitionsTable = MEDICAL_SERVICE_STATUS_TRANSITIONS
  /\ metadataRegistry = METADATA_REGISTRY
  /\ call = [op |-> "none", args |-> << >>]
  /\ result = Return(Undefined)
  /\ serviceStatus \in Range(MedicalServiceStatus)

\* the caller's status change with validation: it throws unless
\* isValidTransition(currentStatus, newStatus), and updates the status if so
updateMedicalServiceStatus ==
  \E newStatus \in StatusInputs :
    LET valid == isValidTransition(transitionsTable, serviceStatus, newStatus) IN
      /\ Idle
      /\ call' = [op |-> "updateMedicalServiceStatus", args |-> <<newStatus, serviceStatus>>]
      /\ result' = IF valid.kind = "throw" THEN valid
                   ELSE IF ~Truthy(valid.value)
                        THEN Throw("Error", <<"Cannot transition", serviceStatus, newStatus>>)
                   ELSE Return(Undefined)
      /\ serviceStatus' = IF valid.kind = "return" /\ Truthy(valid.value)
                          THEN newStatus ELSE serviceStatus
      /\ UNCHANGED Tables

\* the transition functions and a caller that changes the status of a service
NextWorkflow ==
  \/ ReturnToCaller
  \/ CallIsValidTransition
  \/ CallGetAllowedTransitions
  \/ updateMedicalServiceStatus

SpecWorkflow == InitWorkflow /\ [][NextWorkflow]_vars

(* ------------------------------ properties ----------------------------- *)

\* the statuses of the medical service workflow
MedicalStatuses == Range(MedicalServiceStatus)

\* status is one of the values registered for the feature
RegisteredPair(feature, status) ==
  /\ feature \in Range(ObjectKeys(metadataRegistry))
  /\ status \in Range(ObjectKeys(metadataRegistry.map[feature]))

\* C1: for every pair of medical service statuses (from, to), to is a member
\* of getAllowedTransitions(from) if and only if isValidTransition(from, to)
\* returns true.  Stated on both calls: the sequence a getAllowedTransitions
\* call returned holds exactly the targets isValidTransition accepts, and the
\* boolean an isValidTransition call returned is membership in the sequence
\* getAllowedTransitions returns.
C1_AllowedIffValid ==
  /\ (call.op = "getAllowedTransitions" /\ call.args[1] \in MedicalStatuses) =>
       /\ result.kind = "return"
       /\ result.value.t = "array"
       /\ \A to \in MedicalStatuses :
            (to \in Range(result.value.items))
              <=> (isValidTransition(transitionsTable, call.args[1], to) = Return(JSBoolean(TRUE)))
  /\ (call.op = "isValidTransition" /\ call.args[1] \in MedicalStatuses
         /\ call.args[2] \in MedicalStatuses) =>
       /\ result.kind = "return"
       /\ result.value.t = "boolean"
       /\ result.value.b
            <=> (call.args[2] \in Range(getAllowedTransitions(transitionsTable, call.args[1]).value.items))

C1_Witness ==
  /\ call.op = "getAllowedTransitions"
  /\ call.args = <<"in_progress">>
  /\ result = Return(JSArray(<<"completed", "canceled">>))

\* the pairs the claim lists
C2_ListedPairs ==
  {<<"pending", "on_waiting_room">>, <<"pending", "in_progress">>, <<"pending", "canceled">>,
   <<"on_waiting_room", "in_progress">>, <<"on_waiting_room", "canceled">>,
   <<"on_waiting_room", "pending">>,
   <<"in_progress", "completed">>, <<"in_progress", "canceled">>,
   <<"completed", "in_progress">>,
   <<"canceled", "pending">>}

\* the pairs of medical service statuses isValidTransition accepts
C2_AcceptedPairs ==
  {p \in MedicalStatuses \X MedicalStatuses :
     isValidTransition(transitionsTable, p[1], p[2]) = Return(JSBoolean(TRUE))}

\* the pairs of medical service statuses isValidTransition rejects
C2_RejectedPairs ==
  {p \in MedicalStatuses \X MedicalStatuses :
     isValidTransition(transitionsTable, p[1], p[2]) = Return(JSBoolean(FALSE))}

\* C2 (as amended): isValidTransition over the five medical service statuses
\* is true for exactly the 10 listed pairs and false for the other 15;
\* pending->completed and in_progress->pending are rejected.
C2_ExactlyListedPairs ==
  /\ (call.op = "isValidTransition" /\ call.args[1] \in MedicalStatuses
         /\ call.args[2] \in MedicalStatuses) =>
       result = Return(JSBoolean(call.args \in C2_ListedPairs))
  /\ C2_AcceptedPairs = C2_ListedPairs
  /\ Cardinality(C2_AcceptedPairs) = 10
  /\ Cardinality(C2_RejectedPairs) = 15
  /\ <<"pending", "completed">> \in C2_RejectedPairs
  /\ <<"in_progress", "pending">> \in C2_RejectedPairs

\* C2 (original statement): the accepted pairs are the listed ones, they are
\* 11, and the rejected pairs are the other 14.
C2_ElevenAndFourteen ==
  (call.op = "isValidTransition" /\ call.args[1] \in MedicalStatuses
      /\ call.args[2] \in MedicalStatuses) =>
    /\ result = Return(JSBoolean(call.args \in C2_ListedPairs))
    /\ C2_AcceptedPairs = C2_ListedPairs
    /\ Cardinality(C2_AcceptedPairs) = 11
    /\ Cardinality(C2_RejectedPairs) = 14

C2_Witness ==
  /\ call.op = "isValidTransition"
  /\ call.args = <<"pending", "completed">>
  /\ result = Return(JSBoolean(FALSE))

\* C3 (original statement): when `from` has no entry in the transition table,
\* isValidTransition(from, to) returns false for every `to` and
\* getAllowedTransitions(from) returns an empty sequence; neither call raises.
C3_NoEntryIsFalseOrEmpty ==
  /\ (call.op = "isValidTransition"
        /\ call.args[1] \notin Range(ObjectKeys(transitionsTable))) =>
       result = Return(JSBoolean(FALSE))
  /\ (call.op = "getAllowedTransitions"
        /\ call.args[1] \notin Range(ObjectKeys(transitionsTable))) =>
       result = Return(JSArray(<< >>))

\* C4: referential integrity of the transition table: every key of
\* MEDICAL_SERVICE_STATUS_TRANSITIONS and every status listed as a target has
\* an entry in MEDICAL_SERVICE_STATUS_METADATA, and every status with
\* metadata is a key of the transition table.
C4_ReferentialIntegrity ==
  LET metadataKeys == Range(ObjectKeys(metadataRegistry.map["medicalService"]))
      tableKeys == Range(ObjectKeys(transitionsTable)) IN
    /\ tableKeys \subseteq metadataKeys
    /\ \A from \in tableKeys : Range(transitionsTable.map[from].items) \subseteq metadataKeys
    /\ metadataKeys \subseteq tableKeys
    /\ (call.op = "getAllowedTransitions" /\ call.args[1] \in tableKeys) =>
         /\ result.kind = "return"
         /\ Range(result.value.items) \subseteq metadataKeys

C4_Witness ==
  /\ call.op = "getAllowedTransitions"
  /\ call.args = <<"on_waiting_room">>
  /\ result.kind = "return"
  /\ "pending" \in Range(result.value.items)
  /\ "pending" \in Range(ObjectKeys(metadataRegistry.map["medicalService"]))

\* C5 (original statement): getStatusMetadataForFeature(feature, status) fails
\* with an unknown-feature error when the feature is not registered, with a
\* different unknown-status error when the feature is registered but the
\* status is not one of its values, and returns the registered metadata (never
\* a substitute) for every registered pair.
C5_DistinctErrors ==
  (call.op = "getStatusMetadataForFeature") =>
    IF call.args[1] \notin Range(ObjectKeys(metadataRegistry))
    THEN /\ result.kind = "throw"
         /\ result.message = <<"Unknown status feature: ", call.args[1]>>
    ELSE IF ~RegisteredPair(call.args[1], call.args[2])
    THEN /\ result.kind = "throw"
         /\ result.message = <<"Unknown status for feature ", call.args[1], ": ", call.args[2]>>
    ELSE result = Return(metadataRegistry.map[call.args[1]].map[call.args[2]])

\* a value outside the closed set that names no inherited member either
NamesNoProperty(key, closed) == key \notin closed /\ key \notin OBJECT_PROTOTYPE_KEYS

WAITING_TERM == <<"w","a","i","t","i","n","g">>

\* the search term 'WAITING'
UPPER_WAITING_TERM == <<"W","A","I","T","I","N","G">>

\* the color '#4CAF50'
GREEN == <<"#","4","C","A","F","5","0">>

\* C7 (original statement): searchStatusesByFeature('medicalService',
\* 'waiting', 'us-EN') returns exactly the one-element sequence
\* [on_waiting_room].
C7_WaitingFindsOnlyWaitingRoom ==
  (call.op = "searchStatusesByFeature"
     /\ call.args = <<"medicalService", WAITING_TERM, "us-EN">>) =>
    result = Return(JSArray(<<"on_waiting_room">>))

\* text occurs in within: within = before \o text \o after for some split
OccursIn(text, within) ==
  \E start \in 1..(Len(within) + 1) :
    /\ start + Len(text) - 1 <= Len(within)
    /\ \A k \in 1..Len(text) : within[start + k - 1] = text[k]

\* the three texts of a status in a locale
TextsOf(feature, status, locale) ==
  LET metadata == metadataRegistry.map[feature].map[status].map IN
    {metadata["label"].map["short"].map[locale].s,
     metadata["label"].map["long"].map[locale].s,
     metadata["description"].map[locale].s}

NoDuplicates(seq) == \A i, j \in DOMAIN seq : seq[i] = seq[j] => i = j

RECURSIVE Flatten(_, _)
Flatten(grouped, keys) ==
  IF Len(keys) = 0 THEN << >>
  ELSE grouped.map[Head(keys)].items \o Flatten(grouped, Tail(keys))

\* C9: for every feature, groupStatusesByColorForFeature partitions the
\* feature's statuses: no status appears in two color groups, no status
\* appears twice in a group, and the union of all groups equals
\* getAllStatusesForFeature(feature); for medicalService the group of
\* '#4CAF50' is exactly [completed].
C9_ColorGroupsPartition ==
  (call.op = "groupStatusesByColorForFeature"
     /\ call.args[1] \in Range(ObjectKeys(metadataRegistry))) =>
    /\ result.kind = "return"
    /\ result.value.t = "object"
    /\ DOMAIN result.value.map = Range(result.value.keys)
    /\ NoDuplicates(result.value.keys)
    /\ NoDuplicates(Flatten(result.value, result.value.keys))
    /\ Range(Flatten(result.value, result.value.keys))
         = Range(getAllStatusesForFeature(metadataRegistry, call.args[1]).value.items)
    /\ call.args[1] = "medicalService" =>
         /\ GREEN \in DOMAIN result.value.map
         /\ result.value.map[GREEN] = JSArray(<<"completed">>)

C9_Witness ==
  /\ call.op = "groupStatusesByColorForFeature"
  /\ call.args = <<"medicalService">>
  /\ result.kind = "return"
  /\ Len(result.value.keys) = 5
  /\ result.value.map[GREEN] = JSArray(<<"completed">>)

\* C10: for every registered feature, getAllStatusesForFeature(feature)
\* contains exactly the keys of getAllStatusMetadataForFeature(feature), each
\* once.
C10_StatusesAreMetadataKeys ==
  /\ (call.op = "getAllStatusesForFeature"
        /\ call.args[1] \in Range(ObjectKeys(metadataRegistry))) =>
       /\ result.kind = "return"
       /\ result.value.t = "array"
       /\ NoDuplicates(result.value.items)
       /\ Range(result.value.items)
            = DOMAIN getAllStatusMetadataForFeature(metadataRegistry, call.args[1]).value.map
  /\ (call.op = "getAllStatusMetadataForFeature"
        /\ call.args[1] \in Range(ObjectKeys(metadataRegistry))) =>
       /\ result.kind = "return"
       /\ DOMAIN result.value.map
            = Range(getAllStatusesForFeature(metadataRegistry, call.args[1]).value.items)

C10_Witness ==
  /\ call.op = "getAllStatusesForFeature"
  /\ call.args = <<"accountLocation">>
  /\ result = Return(JSArray(<<"inherit", "always_open", "closed", "periods">>))

\* the text 'Invalide'
INVALIDE_TEXT == <<"I","n","v","a","l","i","d","e">>

\* C11: completeness: for every registered feature (medicalService,
\* accountLocation, medicalHistory, yesNo, activeInactive, enabledDisabled,
\* validInvalid) and every status of it, the icon, the color, the short
\* label, the long label and the description are non-empty for both locales
\* us-EN and fr-FR.  Stated on the registry and on what the label and
\* description accessors return for a registered pair, a locale and a format
\* of the closed sets.
C11_Completeness ==
  /\ Range(ObjectKeys(metadataRegistry)) =
       {"medicalService", "accountLocation", "medicalHistory", "yesNo", "activeInactive",
        "enabledDisabled", "validInvalid"}
  /\ \A feature \in Range(ObjectKeys(metadataRegistry)) :
       \A status \in Range(ObjectKeys(metadataRegistry.map[feature])) :
         LET metadata == metadataRegistry.map[feature].map[status].map IN
           /\ metadata["icon"].t = "string" /\ Len(metadata["icon"].s) > 0
           /\ metadata["color"].t = "string" /\ Len(metadata["color"].s) > 0
           /\ \A locale \in Locales :
                /\ Len(metadata["label"].map["short"].map[locale].s) > 0
                /\ Len(metadata["label"].map["long"].map[locale].s) > 0
                /\ Len(metadata["description"].map[locale].s) > 0
  /\ (call.op = "getStatusLabelForFeature" /\ RegisteredPair(call.args[1], call.args[2])
        /\ call.args[3] \in Locales /\ call.args[4] \in Formats) =>
       /\ result.kind = "return"
       /\ result.value.t = "string"
       /\ Len(result.value.s) > 0
  /\ (call.op = "getStatusDescriptionForFeature" /\ RegisteredPair(call.args[1], call.args[2])
        /\ call.args[3] \in Locales) =>
       /\ result.kind = "return"
       /\ result.value.t = "string"
       /\ Len(result.value.s) > 0

C11_Witness ==
  /\ call.op = "getStatusLabelForFeature"
  /\ call.args = <<"validInvalid", "false", "fr-FR", "long">>
  /\ result = Return(JSString(INVALIDE_TEXT))

\* what the call c returns when the tables are transitions and registry
ResultOf(c, transitions, registry) ==
  CASE c.op = "isValidTransition" -> isValidTransition(transitions, c.args[1], c.args[2])
    [] c.op = "getAllowedTransitions" -> getAllowedTransitions(transitions, c.args[1])
    [] c.op = "getStatusMetadataForFeature" ->
         getStatusMetadataForFeature(registry, c.args[1], c.args[2])
    [] c.op = "getStatusLabelForFeature" ->
         getStatusLabelForFeature(registry, c.args[1], c.args[2], c.args[3], c.args[4])
    [] c.op = "getStatusDescriptionForFeature" ->
         getStatusDescriptionForFeature(registry, c.args[1], c.args[2], c.args[3])
    [] c.op = "getAllStatusMetadataForFeature" -> getAllStatusMetadataForFeature(registry, c.args[1])
    [] c.op = "getAllStatusesForFeature" -> getAllStatusesForFeature(registry, c.args[1])
    [] c.op = "searchStatusesByFeature" ->
         searchStatusesByFeature(registry, c.args[1], c.args[2], c.args[3])
    [] c.op = "groupStatusesByColorForFeature" -> groupStatusesByColorForFeature(registry, c.args[1])
    [] c.op = "groupStatusesByIconForFeature" -> groupStatusesByIconForFeature(registry, c.args[1])
    [] c.op = "getAllMedicalServiceStatuses" -> getAllMedicalServiceStatuses
    [] c.op = "Operation.fromString" -> fromString(c.args[1])
    [] c.op = "Operation.toString" -> toString(Operation(c.args[1], c.args[2]))
    [] c.op = "isMedicalResource" -> isMedicalResource(c.args[1])
    [] c.op = "isPublicResource" -> isPublicResource(c.args[1])
    [] c.op = "isMedicalResourceCategorised" -> isMedicalResourceCategorised(c.args[1])
    [] c.op = "isPublicResourceCategorised" -> isPublicResourceCategorised(c.args[1])
    [] c.op = "buildSSMPath" -> buildSSMPath(c.args[1], c.args[2])
    [] c.op = "extractKeyFromPath" -> extractKeyFromPath(c.args[1])
    [] c.op = "extractEnvFromPath" -> extractEnvFromPath(c.args[1])
    [] c.op = "isEnvAgnostic" -> isEnvAgnostic(c.args[1])
    [] c.op = "getAllResources" -> getAllResources
    [] c.op = "calculateChangedData" -> calculateChangedData(c.args[1], c.args[2])
    [] c.op = "getActionLabel" -> getActionLabel(c.args[1], c.args[2])
    [] c.op = "getResourceLabel" -> getResourceLabel(c.args[1], c.args[2])
    [] c.op = "getOperationLabel" -> getOperationLabel(c.args[1], c.args[2], c.args[3])
    [] c.op = "getStatusMetadata" -> getStatusMetadata(Get(registry, "medicalService"), c.args[1])
    [] c.op = "getStatusIcon" -> getStatusIcon(Get(registry, "medicalService"), c.args[1])
    [] c.op = "getStatusColor" -> getStatusColor(Get(registry, "medicalService"), c.args[1])
    [] c.op = "getStatusLabel" ->
         getStatusLabel(Get(registry, "medicalService"), c.args[1], c.args[2], c.args[3])
    [] c.op = "getStatusDescription" ->
         getStatusDescription(Get(registry, "medicalService"), c.args[1], c.args[2])
    [] c.op = "getStatusIconForFeature" -> getStatusIconForFeature(registry, c.args[1], c.args[2])
    [] c.op = "getStatusColorForFeature" -> getStatusColorForFeature(registry, c.args[1], c.args[2])
    [] c.op = "getExtendedStatusMetadataForFeature" ->
         getExtendedStatusMetadataForFeature(registry, c.args[1], c.args[2], c.args[3])
    [] c.op = "filterStatusesByFeature" -> filterStatusesByFeature(registry, c.args[1], c.args[2])
    [] c.op = "mapStatusesByFeature" -> mapStatusesByFeature(registry, c.args[1], c.args[2])
    [] OTHER -> Return(Undefined)

\* C12: after any sequence of calls to the status accessors and query
\* functions the metadata registry and the transition table are unchanged, so
\* repeating a call with the same arguments returns an equal result: the
\* tables are the ones the module was loaded with, and what a call returned is
\* what the same call returns on the tables as loaded.
C12_CallsLeaveTablesUnchanged ==
  /\ transitionsTable = MEDICAL_SERVICE_STATUS_TRANSITIONS
  /\ metadataRegistry = METADATA_REGISTRY
  /\ ~Idle => result = ResultOf(call, MEDICAL_SERVICE_STATUS_TRANSITIONS, METADATA_REGISTRY)

\* a call made after other calls have returned
C12_Witness ==
  /\ call.op = "getAllowedTransitions"
  /\ call.args = <<"archived">>
  /\ result = Return(JSArray(<< >>))
  /\ transitionsTable = MEDICAL_SERVICE_STATUS_TRANSITIONS

\* position of a member in a sequence without duplicates
PositionIn(seq, member) == CHOOSE i \in DOMAIN seq : seq[i] = member

\* the members of kept are members of all, each once, in the order of all
OrderPreservingSubsequence(kept, all) ==
  /\ Range(kept) \subseteq Range(all)
  /\ NoDuplicates(kept)
  /\ \A i, j \in DOMAIN kept :
       i < j => PositionIn(all, kept[i]) < PositionIn(all, kept[j])

\* C13: filterStatusesByFeature(feature, predicate) returns exactly the
\* statuses whose metadata satisfies the predicate, in the same relative order
\* as getAllStatusesForFeature(feature); the same order holds inside each
\* group returned by groupStatusesByColorForFeature and
\* groupStatusesByIconForFeature.
C13_OrderPreservingFilterAndGroups ==
  LET feature == call.args[1]
      all == getAllStatusesForFeature(metadataRegistry, feature)
      metadata == getAllStatusMetadataForFeature(metadataRegistry, feature)
  IN /\ (call.op = "filterStatusesByFeature" /\ all.kind = "return") =>
          /\ result.kind = "return"
          /\ result.value.t = "array"
          /\ Range(result.value.items) =
               {status \in Range(all.value.items) :
                  call.args[2][<<status, metadata.value.map[status]>>] = Return(JSBoolean(TRUE))}
          /\ OrderPreservingSubsequence(result.value.items, all.value.items)
     /\ (call.op \in {"groupStatusesByColorForFeature", "groupStatusesByIconForFeature"}
           /\ all.kind = "return") =>
          /\ result.kind = "return"
          /\ \A key \in DOMAIN result.value.map :
               OrderPreservingSubsequence(result.value.map[key].items, all.value.items)

\* a predicate that keeps three statuses that are not neighbours
C13_Witness ==
  /\ call.op = "filterStatusesByFeature"
  /\ call.args[1] = "medicalService"
  /\ result = Return(JSArray(<<"pending", "in_progress", "canceled">>))

\* a color group of two statuses
C13_GroupOfTwo ==
  /\ call.op = "groupStatusesByColorForFeature"
  /\ call.args[1] = "medicalHistory"
  /\ result.kind = "return"
  /\ \E key \in DOMAIN result.value.map : result.value.map[key] = JSArray(<<"current", "expired">>)

\* C14: the registry holds no shared mutable state reachable by callers: if a
\* caller mutates the sequence returned by getAllowedTransitions(status) or the
\* mapping returned by getAllStatusMetadataForFeature(feature), the results of
\* later isValidTransition, getAllowedTransitions and metadata accessor calls
\* are the same as before the mutation, that is, what the call returns on the
\* tables as loaded.
C14_LaterCallsUnaffectedByCallerWrites ==
  [][(Idle /\ call'.op \in {"isValidTransition", "getAllowedTransitions",
                            "getStatusMetadataForFeature", "getAllStatusMetadataForFeature",
                            "getAllStatusesForFeature"}) =>
       result' = ResultOf(call', MEDICAL_SERVICE_STATUS_TRANSITIONS, METADATA_REGISTRY)]_vars

\* C15 (original statement): getAllMedicalServiceStatuses() returns the five
\* statuses in the order pending, on_waiting_room, in_progress, completed,
\* canceled, which is the same sequence that
\* getAllStatusesForFeature('medicalService') returns.
C15_DocumentedOrder ==
  call.op = "getAllMedicalServiceStatuses" =>
    /\ result = Return(JSArray(<<"pending", "on_waiting_room", "in_progress",
                                 "completed", "canceled">>))
    /\ result = getAllStatusesForFeature(metadataRegistry, "medicalService")

\* the search term 'attente'
ATTENTE_TERM == <<"a","t","t","e","n","t","e">>

\* C16 (original statement): searchStatusesByFeature('medicalService',
\* 'attente', 'fr-FR') returns the sequence [on_waiting_room, pending]:
\* exactly these two statuses, on_waiting_room first.
C16_AttenteFindsWaitingRoomFirst ==
  (call.op = "searchStatusesByFeature"
     /\ call.args = <<"medicalService", ATTENTE_TERM, "fr-FR">>) =>
    result = Return(JSArray(<<"on_waiting_room", "pending">>))

AUDIT_LOG == <<"A","U","D","I","T","_","L","O","G">>

AUDIT == <<"A","U","D","I","T">>

\* C17: operation string round trip: for every Resource r and Action a,
\* Operation.fromString(new Operation(r, a).toString()) is non-null and equals
\* Operation(r, a); and for every string s that fromString accepts,
\* fromString(s).toString() equals s.
C17_OperationStringRoundTrip ==
  /\ call.op = "Operation.toString" =>
       /\ result.kind = "return"
       /\ result.value.t = "string"
       /\ LET parsed == fromString(result.value.s)
              operation == Operation(call.args[1], call.args[2])
          IN /\ parsed.kind = "return"
             /\ parsed.value.t = "Operation"
             /\ equals(parsed.value, operation) = Return(JSBoolean(TRUE))
             /\ equals(operation, parsed.value) = Return(JSBoolean(TRUE))
  /\ (call.op = "Operation.fromString" /\ result.kind = "return" /\ result.value.t # "null") =>
       toString(result.value) = Return(JSString(call.args[1]))

\* new Operation(AUDIT_LOG, AUDIT).toString() is 'AUDIT_LOG:AUDIT', which parses
C17_Witness ==
  /\ call.op = "Operation.toString"
  /\ call.args = <<AUDIT_LOG, AUDIT>>
  /\ result = Return(JSString(AUDIT_LOG \o <<":">> \o AUDIT))
  /\ fromString(result.value.s) = Return(Operation(AUDIT_LOG, AUDIT))

\* the positions of ':' in a string
ColonPositions(s) == {i \in DOMAIN s : s[i] = ":"}

\* s is RESOURCE:ACTION for a Resource value and an Action value
WellFormedOperationString(s) ==
  /\ Cardinality(ColonPositions(s)) = 1
  /\ LET colon == CHOOSE i \in ColonPositions(s) : TRUE
     IN /\ SubSeq(s, 1, colon - 1) \in Range(Resource)
        /\ SubSeq(s, colon + 1, Len(s)) \in Range(Action)

PATIENT_READ_EXTRA == <<"P","A","T","I","E","N","T",":","R","E","A","D",":","E","X","T","R","A">>

PATIENT == <<"P","A","T","I","E","N","T">>

IsTrue(completion) == completion = Return(JSBoolean(TRUE))

\* C19: MEDICAL_RESOURCES and PUBLIC_RESOURCES do not overlap: there is no
\* Resource r for which both isMedicalResource(r) and isPublicResource(r)
\* return true (in either resources file of the repository).
C19_MedicalAndPublicDisjoint ==
  /\ Range(MEDICAL_RESOURCES) \cap Range(PUBLIC_RESOURCES) = {}
  /\ Range(RESOURCE_CATEGORIES.medical) \cap Range(RESOURCE_CATEGORIES.public) = {}
  /\ (call.op = "isMedicalResource" /\ IsTrue(result)) =>
       ~IsTrue(isPublicResource(call.args[1]))
  /\ (call.op = "isPublicResource" /\ IsTrue(result)) =>
       ~IsTrue(isMedicalResource(call.args[1]))
  /\ (call.op = "isMedicalResourceCategorised" /\ IsTrue(result)) =>
       ~IsTrue(isPublicResourceCategorised(call.args[1]))
  /\ (call.op = "isPublicResourceCategorised" /\ IsTrue(result)) =>
       ~IsTrue(isMedicalResourceCategorised(call.args[1]))

\* PATIENT is a medical resource
C19_Witness ==
  /\ call.op = "isMedicalResource"
  /\ call.args = <<PATIENT>>
  /\ IsTrue(result)

\* what follows the last '/' of a path (the whole path if it has none)
LastSegment(path) ==
  LET slashes == {i \in DOMAIN path : path[i] = "/"} IN
    IF slashes = {} THEN path
    ELSE SubSeq(path, (CHOOSE i \in slashes : \A j \in slashes : j <= i) + 1, Len(path))

\* C20: SSM key round trip: for every SSM_PARAM_KEY k and every env (null or a
\* string), extractKeyFromPath(buildSSMPath(env, k)) returns k; and
\* extractKeyFromPath returns null for any path whose last '/'-separated
\* segment is not an SSM_PARAM_KEY value.
C20_SSMKeyRoundTrip ==
  /\ call.op = "buildSSMPath" =>
       /\ result.kind = "return"
       /\ result.value.t = "string"
       /\ extractKeyFromPath(result.value.s) = Return(JSString(call.args[2]))
  /\ call.op = "extractKeyFromPath" =>
       /\ result.kind = "return"
       /\ LastSegment(call.args[1]) \notin Range(SSM_PARAM_KEY) => result.value.t = "null"
       /\ LastSegment(call.args[1]) \in Range(SSM_PARAM_KEY) =>
            result.value = JSString(LastSegment(call.args[1]))

\* buildSSMPath('myapp/staging', 'db-password') is '/myapp/staging/db-password'
C20_Witness ==
  /\ call.op = "buildSSMPath"
  /\ call.args = <<JSString(<<"m","y","a","p","p","/","s","t","a","g","i","n","g">>), <<"d","b","-","p","a","s","s","w","o","r","d">>>>
  /\ result = Return(JSString(<<"/","m","y","a","p","p","/","s","t","a","g","i","n","g","/","d","b","-","p","a","s","s","w","o","r","d">>))
  /\ extractKeyFromPath(result.value.s) = Return(JSString(<<"d","b","-","p","a","s","s","w","o","r","d">>))

\* a path that ends in no key
C20_NullReached ==
  /\ call.op = "extractKeyFromPath"
  /\ call.args = <<<<"/","p","r","o","d","/","i","n","v","a","l","i","d","-","k","e","y">>>>
  /\ result = Return(JSNull)

\* C21 (original statement): SSM environment round trip: for every
\* SSM_PARAM_KEY k, extractEnvFromPath(buildSSMPath(env, k)) returns env when
\* env is a non-empty string, and returns null when env is null (the
\* env-agnostic path '/key'); it also returns null for '/' and for a path with
\* no leading slash.
C21_SSMEnvRoundTrip ==
  /\ call.op = "buildSSMPath" =>
       /\ result.kind = "return"
       /\ (call.args[1].t = "string" /\ Len(call.args[1].s) > 0) =>
            extractEnvFromPath(result.value.s) = Return(call.args[1])
       /\ call.args[1].t = "null" => extractEnvFromPath(result.value.s) = Return(JSNull)
  /\ (call.op = "extractEnvFromPath"
        /\ (call.args[1] = <<"/">> \/ Len(call.args[1]) = 0 \/ call.args[1][1] # "/")) =>
       result = Return(JSNull)

\* the segments of a path that are not empty
NonEmptySegments(path) ==
  {<<i, j>> \in (1..Len(path)) \X (1..Len(path)) :
     /\ i <= j
     /\ \A k \in i..j : path[k] # "/"
     /\ (i = 1 \/ path[i - 1] = "/")
     /\ (j = Len(path) \/ path[j + 1] = "/")}

\* the string has a character other than '/'
HasNonSlash(s) == \E i \in DOMAIN s : s[i] # "/"

C29_ClassifiersAgree ==
  (call.op \in {"isEnvAgnostic", "extractEnvFromPath"} /\ HasNonSlash(call.args[1])) =>
    (isEnvAgnostic(call.args[1]) = Return(JSBoolean(TRUE))
       <=> extractEnvFromPath(call.args[1]) = Return(JSNull))

\* the label an action has in a table, its humanized key if it has none
LabelIn(labels, key) == IF key \in DOMAIN labels THEN labels[key] ELSE humanizeKey(key)

\* C23 (original statement): getActionLabel(action, locale) returns the
\* English label when locale is 'en' or 'en-US' and the French label when
\* locale is 'fr' or 'fr-FR' (READ -> 'Read' / 'Lire'); getOperationLabel
\* follows the same locale resolution.
C23_LocaleResolution ==
  /\ call.op = "getActionLabel" =>
       /\ call.args[2] \in {"en", "en-US"} =>
            result = Return(JSString(LabelIn(enAction, call.args[1])))
       /\ call.args[2] \in {"fr", "fr-FR"} =>
            result = Return(JSString(LabelIn(frAction, call.args[1])))
  /\ call.op = "getOperationLabel" =>
       /\ call.args[2] \in {"en", "en-US"} =>
            result = getOperationLabel(call.args[1], "us-EN", call.args[3])
       /\ call.args[2] \in {"fr", "fr-FR"} =>
            result = getOperationLabel(call.args[1], "fr-FR", call.args[3])

\* C24: no medical service status may transition to itself:
\* isValidTransition(s, s) is false for every status s, and s is never a member
\* of getAllowedTransitions(s).
C24_NoSelfTransition ==
  /\ (call.op = "isValidTransition"
        /\ call.args[1] \in MedicalStatuses
        /\ call.args[2] = call.args[1]) =>
       result = Return(JSBoolean(FALSE))
  /\ (call.op = "getAllowedTransitions" /\ call.args[1] \in MedicalStatuses) =>
       /\ result.kind = "return"
       /\ result.value.t = "array"
       /\ call.args[1] \notin Range(result.value.items)

\* isValidTransition('on_waiting_room', 'on_waiting_room')
C24_Witness ==
  /\ call.op = "isValidTransition"
  /\ call.args = <<"on_waiting_room", "on_waiting_room">>
  /\ result = Return(JSBoolean(FALSE))

\* the statuses reached from a set of statuses by accepted transitions
RECURSIVE ReachableFrom(_)
ReachableFrom(statuses) ==
  LET next == statuses \cup
                {to \in MedicalStatuses :
                   \E from \in statuses :
                     isValidTransition(transitionsTable, from, to) = Return(JSBoolean(TRUE))}
  IN IF next = statuses THEN statuses ELSE ReachableFrom(next)

\* the statuses one accepted transition away
Successors(status) ==
  {to \in MedicalStatuses :
     isValidTransition(transitionsTable, status, to) = Return(JSBoolean(TRUE))}

\* C25: the medical service workflow has no dead end: every status has at
\* least one allowed transition, and from any status every other status is
\* reachable by a finite sequence of transitions each accepted by
\* isValidTransition (the transition graph is strongly connected).
C25_NoDeadEnd ==
  /\ \A status \in MedicalStatuses :
       /\ getAllowedTransitions(transitionsTable, status).value.items # << >>
       /\ Successors(status) # {}
       /\ ReachableFrom(Successors(status)) = MedicalStatuses
  /\ (call.op = "getAllowedTransitions" /\ call.args[1] \in MedicalStatuses) =>
       result.value.items # << >>

\* a canceled service has been taken back to pending
C25_Witness ==
  /\ call.op = "updateMedicalServiceStatus"
  /\ call.args = <<"pending", "canceled">>
  /\ result = Return(Undefined)
  /\ serviceStatus = "pending"

\* C26: in any sequence of status changes where each step is accepted by
\* isValidTransition, a service enters completed only directly from
\* in_progress, the step right after completed is always in_progress and the
\* step right after canceled is always pending.
C26_CompletedAndCanceledSteps ==
  [][serviceStatus' # serviceStatus =>
       /\ serviceStatus' = "completed" => serviceStatus = "in_progress"
       /\ serviceStatus = "completed" => serviceStatus' = "in_progress"
       /\ serviceStatus = "canceled" => serviceStatus' = "pending"]_vars

\* a completed service has been reopened
C26_Witness ==
  /\ call.op = "updateMedicalServiceStatus"
  /\ call.args = <<"in_progress", "completed">>
  /\ result = Return(Undefined)
  /\ serviceStatus = "in_progress"

\* the result is a returned non-empty string
ReturnsText(completion) ==
  /\ completion.kind = "return"
  /\ completion.value.t = "string"
  /\ Len(completion.value.s) > 0

\* C27: the feature-generic accessors agree with the per-feature accessors:
\* for every medical service status s, locale l in {us-EN, fr-FR} and format f
\* in {short, long}, getStatusLabelForFeature('medicalService', s, l, f) equals
\* the medical-service getStatusLabel(s, l, f), and likewise for icon, color
\* and description; and getExtendedStatusMetadataForFeature(feature, s, l) has
\* shortLabel, longLabel and description equal to the corresponding
\* getStatusLabelForFeature / getStatusDescriptionForFeature results.
C27_GenericAgreesWithPerFeature ==
  LET reg == metadataRegistry
      medical == Get(metadataRegistry, "medicalService")
  IN /\ (call.op = "getStatusLabel" /\ call.args[1] \in MedicalStatuses
           /\ call.args[2] \in Locales /\ call.args[3] \in Formats) =>
          /\ ReturnsText(result)
          /\ result = getStatusLabelForFeature(reg, "medicalService", call.args[1],
                                               call.args[2], call.args[3])
     /\ (call.op = "getStatusLabelForFeature" /\ call.args[1] = "medicalService"
           /\ call.args[2] \in MedicalStatuses
           /\ call.args[3] \in Locales /\ call.args[4] \in Formats) =>
          /\ ReturnsText(result)
          /\ result = getStatusLabel(medical, call.args[2], call.args[3], call.args[4])
     /\ (call.op = "getStatusIcon" /\ call.args[1] \in MedicalStatuses) =>
          /\ ReturnsText(result)
          /\ result = getStatusIconForFeature(reg, "medicalService", call.args[1])
     /\ (call.op = "getStatusColor" /\ call.args[1] \in MedicalStatuses) =>
          /\ ReturnsText(result)
          /\ result = getStatusColorForFeature(reg, "medicalService", call.args[1])
     /\ (call.op = "getStatusDescription" /\ call.args[1] \in MedicalStatuses
           /\ call.args[2] \in Locales) =>
          /\ ReturnsText(result)
          /\ result = getStatusDescriptionForFeature(reg, "medicalService", call.args[1],
                                                     call.args[2])
     /\ (call.op = "getStatusMetadata" /\ call.args[1] \in MedicalStatuses) =>
          result = getStatusMetadataForFeature(reg, "medicalService", call.args[1])
     /\ (call.op = "getExtendedStatusMetadataForFeature"
           /\ RegisteredPair(call.args[1], call.args[2])
           /\ call.args[3] \in Locales) =>
          /\ result.kind = "return"
          /\ Return(Get(result.value, "shortLabel")) =
               getStatusLabelForFeature(reg, call.args[1], call.args[2], call.args[3], "short")
          /\ Return(Get(result.value, "longLabel")) =
               getStatusLabelForFeature(reg, call.args[1], call.args[2], call.args[3], "long")
          /\ Return(Get(result.value, "description")) =
               getStatusDescriptionForFeature(reg, call.args[1], call.args[2], call.args[3])
          /\ Return(Get(result.value, "icon")) =
               getStatusIconForFeature(reg, call.args[1], call.args[2])
          /\ Return(Get(result.value, "color")) =
               getStatusColorForFeature(reg, call.args[1], call.args[2])

\* the long French label of in_progress, asked of the per-feature accessor
C27_Witness ==
  /\ call.op = "getStatusLabel"
  /\ call.args = <<"in_progress", "fr-FR", "long">>
  /\ ReturnsText(result)
  /\ result = getStatusLabelForFeature(metadataRegistry, "medicalService",
                                       "in_progress", "fr-FR", "long")
  /\ result # getStatusLabelForFeature(metadataRegistry, "medicalService",
                                       "in_progress", "fr-FR", "short")

\* the extended metadata of a boolean status
C27_ExtendedReached ==
  /\ call.op = "getExtendedStatusMetadataForFeature"
  /\ call.args = <<"yesNo", "true", "fr-FR">>
  /\ result.kind = "return"
  /\ Return(Get(result.value, "shortLabel")) =
       getStatusLabelForFeature(metadataRegistry, "yesNo", "true", "fr-FR", "short")

\* two field values with the same structure: the same type and the same
\* content, whatever the order of an object's keys
SameValue(a, b) ==
  /\ a.t = b.t
  /\ IF a.t = "object" THEN a.map = b.map ELSE a = b

\* the keys listed in a bucket of a changed-data result, none when the bucket
\* is omitted
BucketKeys(changed, name) ==
  IF name \in Range(changed.keys) THEN Range(changed.map[name].keys) ELSE {}

\* C28: calculateChangedData(newData, oldData) with both records present puts
\* a key that is not a system field in 'added' iff it is only in newData, in
\* 'removed' iff it is only in oldData, in 'modified' iff it is in both with
\* values that are not deep-equal, and in no bucket otherwise; a system field
\* is in no bucket, an empty bucket is omitted, and 'full' is newData.
C28_ChangedDataClassification ==
  (call.op = "calculateChangedData" /\ call.args[1] \in RecordInputs
                                    /\ call.args[2] \in RecordInputs) =>
    LET newData == call.args[1]
        oldData == call.args[2]
        inNew == Range(newData.keys)
        inOld == Range(oldData.keys)
    IN /\ result.kind = "return"
       /\ \A key \in inNew \cup inOld :
            LET changed == result.value IN
              IF isSystemField(key)
              THEN \A name \in {"added", "modified", "removed"} :
                     key \notin BucketKeys(changed, name)
              ELSE /\ key \in BucketKeys(changed, "added") <=> key \in inNew \ inOld
                   /\ key \in BucketKeys(changed, "removed") <=> key \in inOld \ inNew
                   /\ key \in BucketKeys(changed, "modified") <=>
                        /\ key \in inNew \cap inOld
                        /\ ~SameValue(oldData.map[key], newData.map[key])
       /\ \A name \in {"added", "modified", "removed"} \cap Range(result.value.keys) :
            BucketKeys(result.value, name) # {}
       /\ result.value.map["full"] = newData

\* the same statement for records none of whose keys is the name of a member
\* every object inherits
C28_OwnNamesOnly ==
  (call.op = "calculateChangedData" /\ call.args[1] \in RecordInputs
                                    /\ call.args[2] \in RecordInputs
     /\ (Range(call.args[1].keys) \cup Range(call.args[2].keys)) \cap OBJECT_PROTOTYPE_KEYS = {}) =>
    LET newData == call.args[1]
        oldData == call.args[2]
        inNew == Range(newData.keys)
        inOld == Range(oldData.keys)
    IN /\ result.kind = "return"
       /\ \A key \in inNew \cup inOld :
            LET changed == result.value IN
              IF isSystemField(key)
              THEN \A name \in {"added", "modified", "removed"} :
                     key \notin BucketKeys(changed, name)
              ELSE /\ key \in BucketKeys(changed, "added") <=> key \in inNew \ inOld
                   /\ key \in BucketKeys(changed, "removed") <=> key \in inOld \ inNew
                   /\ key \in BucketKeys(changed, "modified") <=>
                        /\ key \in inNew \cap inOld
                        /\ ~SameValue(oldData.map[key], newData.map[key])
       /\ \A name \in {"added", "modified", "removed"} \cap Range(result.value.keys) :
            BucketKeys(result.value, name) # {}
       /\ result.value.map["full"] = newData

\* the number of places of a sequence that hold a value
Occurrences(seq, value) == Cardinality({i \in DOMAIN seq : seq[i] = value})

SYSTEM == <<"S","Y","S","T","E","M">>

\* C30: the resource categories are exhaustive: every value of the Resource
\* enum satisfies exactly one of isMedicalResource and isPublicResource (in
\* either resources file of the repository), and getAllResources() lists every
\* Resource value exactly once.
C30_CategoriesExhaustive ==
  /\ \A r \in Range(Resource) :
       IsTrue(isMedicalResource(r)) # IsTrue(isPublicResource(r))
  /\ \A r \in Range(ResourceCategorised) :
       IsTrue(isMedicalResourceCategorised(r)) # IsTrue(isPublicResourceCategorised(r))
  /\ call.op \in {"isMedicalResource", "isPublicResource"} =>
       /\ result \in {Return(JSBoolean(TRUE)), Return(JSBoolean(FALSE))}
       /\ IsTrue(isMedicalResource(call.args[1])) # IsTrue(isPublicResource(call.args[1]))
  /\ call.op \in {"isMedicalResourceCategorised", "isPublicResourceCategorised"} =>
       /\ result \in {Return(JSBoolean(TRUE)), Return(JSBoolean(FALSE))}
       /\ IsTrue(isMedicalResourceCategorised(call.args[1]))
            # IsTrue(isPublicResourceCategorised(call.args[1]))
  /\ call.op = "getAllResources" =>
       /\ result.kind = "return"
       /\ result.value.t = "array"
       /\ Range(result.value.items) = Range(ResourceCategorised)
       /\ \A r \in Range(ResourceCategorised) : Occurrences(result.value.items, r) = 1

\* getAllResources() has returned a list that holds PATIENT and SYSTEM, and
\* as many entries as the enum has values
C30_Witness ==
  /\ call.op = "getAllResources"
  /\ result.kind = "return"
  /\ Occurrences(result.value.items, PATIENT) = 1
  /\ Occurrences(result.value.items, SYSTEM) = 1
  /\ Len(result.value.items) = Len(ResourceCategorised)
  /\ IsTrue(isMedicalResource(PATIENT)) /\ ~IsTrue(isPublicResource(PATIENT))
  /\ IsTrue(isPublicResource(SYSTEM)) /\ ~IsTrue(isMedicalResource(SYSTEM))

\* isPublicResource has been asked about a resource that is not medical
C30_PublicAsked ==
  /\ call.op = "isPublicResource"
  /\ call.args = <<SYSTEM>>
  /\ IsTrue(result)

====
